---- MODULE Spec2Model ----
(***************************************************************************)
(* Generation orchestration and quota core of nano-banana-lab:             *)
(*   - services/generation_state.py  GenerationStateManager (per session)  *)
(*   - services/trial_quota.py       TrialQuotaService (daily ledger)      *)
(*   - services/generator.py         ImageGenerator retry wrapper          *)
(* Python None is modelled as the empty tuple <<>>: an Optional value is   *)
(* <<>> or <<v>>. A message is the tuple of its characters. An opaque      *)
(* payload is a string, NONE when absent. Times are whole seconds; a UTC   *)
(* day has SecondsPerDay seconds.                                          *)
(***************************************************************************)
EXTENDS Integers, Sequences, FiniteSets, TLC

VARIABLES
    now,                  \* the wall clock (time.time() / datetime.now()), seconds
    \* ---- st.session_state of one browser session, generation_state.py
    current_task,         \* gen_state_current_task: <<>> or <<task>>
    generation_history,   \* gen_state_generation_history: newest first
    is_generating,        \* gen_state_is_generating
    next_uid,             \* source of fresh task ids (uuid4)
    gret,                 \* the last GenerationStateManager call and what it returned
    started,              \* history: start_generation was called since the last
                          \* complete_generation (or since the session began)
    \* ---- one ImageGenerator.generate call, generator.py
    rpc,                  \* "idle", "calling" (inside _execute_with_retry), "returned",
                          \* "thrown" (an exception left generate)
    attempt,              \* the loop variable of _execute_with_retry
    calls,                \* how many times api_call() was invoked
    sleeps,               \* the delays passed to time.sleep, in order
    raised,               \* the messages api_call() raised, in order
    last_error,           \* last_error of _execute_with_retry
    result,               \* the GenerationResult
    cret,                 \* the last classify_error call and what it returned
    \* ---- the trial quota ledger, trial_quota.py
    env,                  \* os.environ as read when the module is imported
    kv,                   \* the R2 bucket: date -> <<>> or <<the blob under that day's key>>
    trial_quota_data,     \* st.session_state.trial_quota_data of each session
    service,              \* _trial_quota_service is not None
    pend,                 \* per session: the request check_quota allowed, not yet consumed
    loaded,               \* per session: data inside consume_quota, between load and save
    qret,                 \* the last TrialQuotaService call and what it returned
    last_consume,         \* history: when consume_quota last returned True
    \* ---- the page handlers of one browser session, components/*.py
    trial,                \* is_trial_mode(): FORCE_TRIAL_MODE, or no API key
    settings,             \* the sidebar settings handed to the handlers
    ui,                   \* [pc, page]: where the session's script is, on which page
    quota_to_consume,     \* st.session_state._quota_to_consume: <<>> or <<record>>
    gen,                  \* history: <<>> or <<the generation a handler started last>>
    batch,                \* the generate_batch call under way: loop position, futures
    rec_gen               \* history: the id of the generation that wrote the pending
                          \* record (0: no record)

genVars == <<current_task, generation_history, is_generating, next_uid, gret, started>>
retryVars == <<rpc, attempt, calls, sleeps, raised, last_error, result, cret>>
quotaVars == <<env, kv, trial_quota_data, service, pend, loaded, qret, last_consume>>
uiVars == <<trial, settings, ui, quota_to_consume, gen, rec_gen, batch>>
notBatch == <<trial, settings, ui, quota_to_consume, gen, rec_gen>>
vars == <<now, genVars, retryVars, quotaVars, uiVars>>

\* ------------------------------------------------------------------ bounds
SecondsPerDay == 4
MaxTime == 8
MaxGenTime == 5
MaxTasks == 2

StartTime == SecondsPerDay

NONE == "<None>"
None == <<>>
Some(x) == <<x>>

\* Python truthiness of an Optional[str] (None, or Some(the tuple of its
\* characters)): None and "" are falsy
Truthy(s) == s # None /\ s[1] # <<>>

Min(a, b) == IF a < b THEN a ELSE b
Max(a, b) == IF a > b THEN a ELSE b

\* ------------------------------------------------- generation_state.py
\* progress is kept in percent: 1.0 is PROGRESS_FULL
PROGRESS_FULL == 100
HISTORY_LIMIT == 20

IDLE == "idle"
PENDING == "pending"
GENERATING == "generating"
COMPLETED == "completed"
CANCELLED == "cancelled"
FAILED == "failed"
GenerationStatus == {IDLE, PENDING, GENERATING, COMPLETED, CANCELLED, FAILED}

\* ESTIMATED_TIMES.get(resolution, 10.0)
ESTIMATED_TIMES(resolution) ==
    CASE resolution = "1K" -> 8
      [] resolution = "2K" -> 12
      [] resolution = "4K" -> 18
      [] OTHER -> 10

\* inputs of the calls
Prompts == {"a cat"}
GenModes == {"basic"}
GenResolutions == {"1K", "8K"}
ProgressInputs == {-50, 50, 150}
MSG_EMPTY == <<>>    \* ''
MSG_BOOM == <<"b", "o", "o", "m">>    \* 'boom'
ErrorInputs == {None, Some(MSG_EMPTY), Some(MSG_BOOM)}
ResultInputs == {NONE, "image"}

\* GenerationTask(...) as built by start_generation
NewTask(uid, prompt, mode, resolution, t) ==
    [task_id |-> uid, prompt |-> prompt, mode |-> mode, status |-> GENERATING,
     created_at |-> t, started_at |-> t, completed_at |-> NONE,
     progress |-> 0, estimated_duration |-> ESTIMATED_TIMES(resolution),
     error |-> None, result |-> NONE, cancelled |-> FALSE]

\* can_start_generation(): reads the is_generating flag
CanStartMutant(flag) == <<TRUE, "">>
can_start_generation(flag) ==
    IF flag THEN <<FALSE, "generation_in_progress">> ELSE <<TRUE, "">>

\* min(max(progress, 0.0), 1.0)
ClampMutant(x) == Max(x, 0)
ClampProgress(x) == Min(Max(x, 0), PROGRESS_FULL)

\* the status branch of complete_generation
FinalStatusMutant(cancelled, error) ==
    IF cancelled THEN CANCELLED ELSE IF Truthy(error) THEN FAILED ELSE COMPLETED
FinalStatus(cancelled, error) ==
    IF Truthy(error) THEN FAILED
    ELSE IF cancelled THEN CANCELLED
    ELSE COMPLETED

\* history.insert(0, task); history[:20]
InsertFrontUnbounded(history, task) == <<task>> \o history
FirstN(s, n) == SubSeq(s, 1, Min(Len(s), n))
InsertFront(history, task) == FirstN(<<task>> \o history, HISTORY_LIMIT)

CanStartCall ==
    /\ gret' = [op |-> "can_start_generation", val |-> can_start_generation(is_generating)]
    /\ UNCHANGED <<now, current_task, generation_history, is_generating, next_uid, started>>

StartGeneration(prompt, mode, resolution) ==
    /\ IF ~can_start_generation(is_generating)[1]
       THEN /\ gret' = [op |-> "start_generation", val |-> None]
            /\ UNCHANGED <<current_task, is_generating, next_uid>>
       ELSE LET task == NewTask(next_uid, prompt, mode, resolution, now) IN
            /\ next_uid <= MaxTasks
            /\ current_task' = Some(task)
            /\ is_generating' = TRUE
            /\ next_uid' = next_uid + 1
            /\ gret' = [op |-> "start_generation", val |-> Some(task)]
    /\ started' = TRUE
    /\ UNCHANGED <<now, generation_history>>

UpdateProgress(x) ==
    /\ IF current_task # None
       THEN current_task' = Some([current_task[1] EXCEPT !.progress = ClampProgress(x)])
       ELSE UNCHANGED current_task
    /\ gret' = [op |-> "update_progress", val |-> None]
    /\ UNCHANGED <<now, generation_history, is_generating, next_uid, started>>

\* complete_generation without its last line (the slot is not cleared)
CompleteKeepsSlot(task_result, error) ==
    /\ current_task # None
    /\ LET t0 == current_task[1]
           t1 == [t0 EXCEPT !.completed_at = now,
                            !.progress = PROGRESS_FULL,
                            !.result = task_result,
                            !.status = FinalStatus(t0.cancelled, error),
                            !.error = IF Truthy(error) THEN error ELSE t0.error]
       IN /\ generation_history' = InsertFront(generation_history, t1)
          /\ current_task' = Some(t1)
    /\ is_generating' = FALSE
    /\ gret' = [op |-> "complete_generation", val |-> None]
    /\ started' = FALSE
    /\ UNCHANGED <<now, next_uid>>

\* complete_generation without the line that clears the flag
CompleteKeepsFlag(task_result, error) ==
    /\ IF current_task # None
       THEN LET t0 == current_task[1]
                t1 == [t0 EXCEPT !.completed_at = now,
                                 !.progress = PROGRESS_FULL,
                                 !.result = task_result,
                                 !.status = FinalStatus(t0.cancelled, error),
                                 !.error = IF Truthy(error) THEN error ELSE t0.error]
            IN generation_history' = InsertFront(generation_history, t1)
       ELSE UNCHANGED generation_history
    /\ current_task' = None
    /\ gret' = [op |-> "complete_generation", val |-> None]
    /\ started' = FALSE
    /\ UNCHANGED <<now, next_uid, is_generating>>

CompleteGeneration(task_result, error) ==
    /\ IF current_task # None
       THEN LET t0 == current_task[1]
                t1 == [t0 EXCEPT !.completed_at = now,
                                 !.progress = PROGRESS_FULL,
                                 !.result = task_result,
                                 !.status = FinalStatus(t0.cancelled, error),
                                 !.error = IF Truthy(error) THEN error ELSE t0.error]
            IN generation_history' = InsertFront(generation_history, t1)
       ELSE UNCHANGED generation_history
    /\ is_generating' = FALSE
    /\ current_task' = None
    /\ gret' = [op |-> "complete_generation", val |-> None]
    /\ started' = FALSE
    /\ UNCHANGED <<now, next_uid>>

CancelGeneration ==
    /\ IF current_task # None
       THEN current_task' = Some([current_task[1] EXCEPT !.cancelled = TRUE,
                                                         !.status = CANCELLED])
       ELSE UNCHANGED current_task
    /\ gret' = [op |-> "cancel_generation", val |-> None]
    /\ UNCHANGED <<now, generation_history, is_generating, next_uid, started>>

IsCancelled ==
    /\ gret' = [op |-> "is_cancelled",
                val |-> IF current_task # None THEN current_task[1].cancelled ELSE FALSE]
    /\ UNCHANGED <<now, current_task, generation_history, is_generating, next_uid, started>>

\* time passes
Tick ==
    /\ now < MaxGenTime
    /\ now' = now + 1
    /\ UNCHANGED genVars


\* ------------------------------------------------------------ generator.py
\* A message is the tuple of its characters, so that `keyword in message` is
\* the substring test it is in Python.
UpperCase == <<"A", "B", "C", "D", "E", "F", "G", "H", "I", "J", "K", "L", "M",
               "N", "O", "P", "Q", "R", "S", "T", "U", "V", "W", "X", "Y", "Z">>
LowerCase == <<"a", "b", "c", "d", "e", "f", "g", "h", "i", "j", "k", "l", "m",
               "n", "o", "p", "q", "r", "s", "t", "u", "v", "w", "x", "y", "z">>
\* str.lower()
Lower(s) ==
    [i \in DOMAIN s |->
        IF \E k \in DOMAIN UpperCase : UpperCase[k] = s[i]
        THEN LowerCase[CHOOSE k \in DOMAIN UpperCase : UpperCase[k] = s[i]]
        ELSE s[i]]
\* `kw in s`
Contains(kw, s) ==
    \E i \in 1..(Len(s) - Len(kw) + 1) : SubSeq(s, i, i + Len(kw) - 1) = kw

MAX_RETRIES == 3
RetryDelaysLinear == <<2, 4, 6>>
RETRY_DELAYS == <<2, 4, 8>>
RETRYABLE_ERRORS == <<
    <<"s", "e", "r", "v", "e", "r", " ", "d", "i", "s", "c", "o", "n", "n", "e", "c", "t", "e", "d">>,
    <<"c", "o", "n", "n", "e", "c", "t", "i", "o", "n", " ", "r", "e", "s", "e", "t">>,
    <<"c", "o", "n", "n", "e", "c", "t", "i", "o", "n", " ", "r", "e", "f", "u", "s", "e", "d">>,
    <<"t", "i", "m", "e", "o", "u", "t">>,
    <<"n", "e", "t", "w", "o", "r", "k">>,
    <<"u", "n", "a", "v", "a", "i", "l", "a", "b", "l", "e">>,
    <<"o", "v", "e", "r", "l", "o", "a", "d", "e", "d">>,
    <<"5", "0", "3">>,
    <<"5", "0", "2">>,
    <<"5", "0", "4">>>>
KW_SAFETY == <<"s", "a", "f", "e", "t", "y">>
KW_BLOCKED == <<"b", "l", "o", "c", "k", "e", "d">>
SAFETY_MESSAGE ==    \* 'Content blocked by safety filter'
    <<"C", "o", "n", "t", "e", "n", "t", " ", "b", "l", "o", "c", "k", "e", "d", " ", "b", "y">> \o
    <<" ", "s", "a", "f", "e", "t", "y", " ", "f", "i", "l", "t", "e", "r">>

\* messages the remote call may raise
MSG_503 == <<"5", "0", "3", " ", "U", "N", "A", "V", "A", "I", "L", "A", "B", "L", "E">>    \* '503 UNAVAILABLE'
MSG_TIMEOUT == <<"R", "e", "a", "d", " ", "t", "i", "m", "e", "o", "u", "t">>    \* 'Read timeout'
MSG_RESET == <<"C", "o", "n", "n", "e", "c", "t", "i", "o", "n", " ", "r", "e", "s", "e", "t">>    \* 'Connection reset'
MSG_SAFETY == <<"S", "A", "F", "E", "T", "Y">>    \* 'SAFETY'
MSG_BLOCKED == <<"B", "l", "o", "c", "k", "e", "d", ":", " ", "t", "i", "m", "e", "o", "u", "t">>    \* 'Blocked: timeout'
MSG_INVALID == <<"A", "P", "I", " ", "k", "e", "y", " ", "n", "o", "t", " ", "v", "a", "l", "i", "d">>    \* 'API key not valid'
RaisedMessages == {MSG_503, MSG_TIMEOUT, MSG_RESET, MSG_SAFETY, MSG_BLOCKED,
                   MSG_INVALID, MSG_EMPTY}
\* what the remote call may return: a candidate with an image, one with text
\* only, one with finish_reason SAFETY, no candidate at all, a candidate
\* without content, or a candidate whose content cannot be read (its parts
\* is None, or its inline data is not an image PIL can open)
Responses == {"image", "text", "SAFETY", "no_candidates", "no_content", "unreadable"}

\* is_retryable_error(error_msg)
is_retryable_error(msg) ==
    \E k \in DOMAIN RETRYABLE_ERRORS : Contains(RETRYABLE_ERRORS[k], Lower(msg))

\* "safety" in error_msg.lower() or "blocked" in error_msg.lower()
IsSafetyErrorSafetyOnly(msg) == Contains(KW_SAFETY, Lower(msg))
IsSafetyError(msg) ==
    Contains(KW_SAFETY, Lower(msg)) \/ Contains(KW_BLOCKED, Lower(msg))

\* is_retryable_error(error_msg) and attempt < MAX_RETRIES
ShouldRetryMutant(msg, n) == is_retryable_error(msg) /\ n < MAX_RETRIES - 1
ShouldRetry(msg, n) == is_retryable_error(msg) /\ n < MAX_RETRIES

\* the keywords classify_error looks for besides those above
KW_QUOTA == <<"q", "u", "o", "t", "a">>
KW_RATE == <<"r", "a", "t", "e">>
KW_API_KEY == <<"a", "p", "i", "_", "k", "e", "y">>
KW_INVALID == <<"i", "n", "v", "a", "l", "i", "d">>
KW_CONNECTION == <<"c", "o", "n", "n", "e", "c", "t", "i", "o", "n">>

\* the ERROR_TYPE_ constants
ErrorTypes ==
    {"overloaded", "unavailable", "timeout", "rate_limited", "invalid_key",
     "safety_blocked", "connection", "unknown"}

\* classify_error(error_msg)
classify_error(msg) ==
    LET l == Lower(msg)
        has(k) == Contains(RETRYABLE_ERRORS[k], l)
    IN  IF has(7) \/ (has(8) /\ has(6)) THEN "overloaded"
        ELSE IF has(8) \/ has(6) THEN "unavailable"
        ELSE IF has(4) THEN "timeout"
        ELSE IF Contains(KW_QUOTA, l) \/ Contains(KW_RATE, l) THEN "rate_limited"
        ELSE IF Contains(KW_API_KEY, l) \/ Contains(KW_INVALID, l) THEN "invalid_key"
        ELSE IF Contains(KW_SAFETY, l) \/ Contains(KW_BLOCKED, l) THEN "safety_blocked"
        ELSE IF has(1) \/ Contains(KW_CONNECTION, l) THEN "connection"
        ELSE "unknown"

\* str.upper() of a lower-case word
Upper(s) ==
    [i \in DOMAIN s |->
        IF \E k \in DOMAIN LowerCase : LowerCase[k] = s[i]
        THEN UpperCase[CHOOSE k \in DOMAIN LowerCase : LowerCase[k] = s[i]]
        ELSE s[i]]

\* the words error messages are made of here: every keyword of the retry
\* logic and of classify_error, and one that is no keyword
ErrorWords ==
    {RETRYABLE_ERRORS[k] : k \in DOMAIN RETRYABLE_ERRORS} \cup
    {KW_SAFETY, KW_BLOCKED, KW_QUOTA, KW_RATE, KW_API_KEY, KW_INVALID, KW_CONNECTION,
     MSG_BOOM}
\* the messages classify_error is called with: one word, in lower or upper
\* case, or two words
ErrorMessages ==
    ErrorWords \cup {Upper(w) : w \in ErrorWords} \cup
    {w1 \o <<":", " ">> \o w2 : w1 \in ErrorWords, w2 \in ErrorWords} \cup
    {MSG_EMPTY}

\* a call of classify_error: it reads its argument only
ClassifyCall(msg) ==
    /\ cret' = [op |-> "classify_error", arg |-> msg, val |-> classify_error(msg)]
    /\ UNCHANGED <<rpc, attempt, calls, sleeps, raised, last_error, result>>

\* GenerationResult()
EmptyResult == [image |-> NONE, text |-> NONE, error |-> None, safety_blocked |-> FALSE]

\* _process_response(response, result) raises: `for part in
\* candidate.content.parts` and Image.open(BytesIO(image_data)) are in no try
ProcessRaises(resp) == resp = "unreadable"

\* _process_response(response, result): the result it leaves
ProcessResponse(resp, res) ==
    CASE resp \in {"no_candidates", "no_content"} -> res
      [] resp = "SAFETY" -> [res EXCEPT !.safety_blocked = TRUE,
                                        !.error = Some(SAFETY_MESSAGE)]
      [] resp = "image" -> [res EXCEPT !.image = "image", !.text = "text"]
      [] OTHER -> [res EXCEPT !.text = "text"]

\* generate(): up to the first api_call()
GenerateBegin ==
    /\ rpc \in {"idle", "returned", "thrown"}
    /\ rpc' = "calling"
    /\ attempt' = 0
    /\ calls' = 0
    /\ sleeps' = <<>>
    /\ raised' = <<>>
    /\ last_error' = None
    /\ result' = EmptyResult
    /\ UNCHANGED cret

\* api_call() returns a response: _execute_with_retry returns it and generate
\* processes it and returns the result, unless _process_response raises
ApiReturns(resp) ==
    /\ rpc = "calling"
    /\ calls' = calls + 1
    /\ IF ProcessRaises(resp)
       THEN /\ rpc' = "thrown"
            /\ UNCHANGED result
       ELSE /\ result' = ProcessResponse(resp, result)
            /\ rpc' = "returned"
    /\ UNCHANGED <<attempt, sleeps, raised, last_error, cret>>

\* api_call() raises: the except branch of _execute_with_retry, and, when the
\* loop ends, the rest of generate
ApiRaises(msg) ==
    /\ rpc = "calling"
    /\ calls' = calls + 1
    /\ raised' = Append(raised, msg)
    /\ last_error' = Some(msg)
    /\ UNCHANGED cret
    /\ IF IsSafetyError(msg)
       THEN /\ result' = [result EXCEPT !.safety_blocked = TRUE,
                                        !.error = Some(SAFETY_MESSAGE)]
            /\ rpc' = "returned"
            /\ UNCHANGED <<attempt, sleeps>>
       ELSE IF ShouldRetry(msg, attempt)
       THEN /\ sleeps' = Append(sleeps, RETRY_DELAYS[attempt + 1])
            /\ attempt' = attempt + 1
            /\ UNCHANGED <<rpc, result>>
       ELSE /\ result' = [result EXCEPT !.error = IF Truthy(result.error)
                                                 THEN result.error ELSE Some(msg)]
            /\ rpc' = "returned"
            /\ UNCHANGED <<attempt, sleeps>>

InitRetry ==
    /\ rpc = "idle"
    /\ attempt = 0
    /\ calls = 0
    /\ sleeps = <<>>
    /\ raised = <<>>
    /\ last_error = None
    /\ result = EmptyResult
    /\ cret = [op |-> "none", arg |-> MSG_EMPTY, val |-> NONE]

ReturnCall == \E resp \in Responses : ApiReturns(resp)
RaiseCall == \E msg \in RaisedMessages : ApiRaises(msg)



\* ---------------------------------------------------------- trial_quota.py
Sessions == {"s1", "s2"}

\* datetime.now(timezone.utc).strftime("%Y-%m-%d"): the day number of time t
Date(t) == t \div SecondsPerDay
\* every date the clock can show; the KV key of a date is
\* "quota/trial_quota_<date>.json"
Dates == Date(StartTime)..Date(MaxTime)

ModeKeys == {"basic_1k", "basic_4k", "chat", "batch_1k", "batch_4k", "search", "blend"}

\* the os.getenv defaults of MANUAL_QUOTA_CONFIGS
DefaultCost ==
    [k \in ModeKeys |->
        CASE k \in {"basic_4k", "batch_4k"} -> 3
          [] k \in {"search", "blend"} -> 2
          [] OTHER -> 1]
DefaultLimit ==
    [k \in ModeKeys |->
        CASE k = "basic_1k" -> 30
          [] k = "basic_4k" -> 10
          [] k = "chat" -> 20
          [] k = "batch_1k" -> 15
          [] k = "batch_4k" -> 5
          [] k = "search" -> 15
          [] OTHER -> 10]
DisplayName ==
    [k \in ModeKeys |->
        CASE k = "basic_1k" -> "Basic (1K/2K)"
          [] k = "basic_4k" -> "Basic (4K)"
          [] k = "chat" -> "Chat"
          [] k = "batch_1k" -> "Batch (1K/2K)"
          [] k = "batch_4k" -> "Batch (4K)"
          [] k = "search" -> "Search"
          [] OTHER -> "Blend/Style"]

\* The process environment. TRIAL_QUOTA_MODE is "manual" (its default).
\*   TRIAL_GLOBAL_QUOTA=5 TRIAL_COOLDOWN_SECONDS=0 TRIAL_BASIC_1K_LIMIT=5
\*   TRIAL_BLEND_LIMIT=3
EnvEndToEnd(r2) ==
    [TRIAL_GLOBAL_QUOTA |-> 5, TRIAL_COOLDOWN_SECONDS |-> 0,
     limit |-> [DefaultLimit EXCEPT !["basic_1k"] = 5, !["blend"] = 3],
     r2_credentials |-> r2]
\*   TRIAL_GLOBAL_QUOTA=10 TRIAL_BLEND_LIMIT=2 (cooldown at its default, 3)
EnvCap(r2) ==
    [TRIAL_GLOBAL_QUOTA |-> 10, TRIAL_COOLDOWN_SECONDS |-> 3,
     limit |-> [DefaultLimit EXCEPT !["blend"] = 2], r2_credentials |-> r2]
Environments == {EnvEndToEnd(r2) : r2 \in BOOLEAN} \cup {EnvCap(r2) : r2 \in BOOLEAN}

GLOBAL_DAILY_QUOTA == env.TRIAL_GLOBAL_QUOTA
GENERATION_COOLDOWN == env.TRIAL_COOLDOWN_SECONDS
QUOTA_CONFIGS ==
    [k \in ModeKeys |->
        [cost |-> DefaultCost[k], daily_limit |-> env.limit[k],
         display_name |-> DisplayName[k]]]

\* _check_kv_available() and _use_session_fallback
kv_available == env.r2_credentials
use_session_fallback == ~kv_available

\* inputs of the calls
QuotaModes == {"basic", "style", "video"}
QuotaResolutions == {"1K", "4K"}
MaxCount == 2
MaxUsed == 5
Counts == 1..MaxCount

\* dict.get(k, default)
DictGet(d, k, default) == IF k \in DOMAIN d THEN d[k] ELSE default
EmptyDict == [k \in {} |-> 0]

\* _get_empty_quota_data(), and the reset value of _load_from_session
EmptyQuotaData(t) ==
    [date |-> Date(t), global_used |-> 0, mode_usage |-> EmptyDict, last_generation |-> 0]

\* get_mode_key comparing the resolution without regard to case and keeping
\* "style" as its own key
GetModeKeyMutant(mode, resolution) ==
    CASE mode = "basic" -> IF resolution \in {"4K", "4k"} THEN "basic_4k" ELSE "basic_1k"
      [] mode = "batch" -> IF resolution \in {"4K", "4k"} THEN "batch_4k" ELSE "batch_1k"
      [] mode = "blend" -> "blend"
      [] OTHER -> mode

\* get_mode_key(mode, resolution)
get_mode_key(mode, resolution) ==
    CASE mode = "basic" -> IF resolution = "4K" THEN "basic_4k" ELSE "basic_1k"
      [] mode = "batch" -> IF resolution = "4K" THEN "batch_4k" ELSE "batch_1k"
      [] mode \in {"blend", "style"} -> "blend"
      [] OTHER -> mode

\* arguments get_mode_key is called with
ModeInputs ==
    {"basic", "batch", "blend", "style", "chat", "search", "template", "templates",
     "video", "Basic", "BATCH", ""}
ResolutionInputs == {"1K", "2K", "4K", "4k", "8K", "4K ", "1k", "", "auto"}

\* a call of get_mode_key: it reads its arguments only
GetModeKeyCall(mode, resolution) ==
    /\ qret' = [op |-> "get_mode_key", sess |-> "s1", args |-> <<mode, resolution>>,
                val |-> get_mode_key(mode, resolution)]
    /\ UNCHANGED <<now, env, kv, trial_quota_data, service, pend, loaded, last_consume>>

\* get_trial_quota_service(): the first call builds the singleton, whose
\* __init__ runs _init_session_fallback in the calling session
SessionDataAfterInit(s) ==
    IF ~service /\ use_session_fallback /\ trial_quota_data[s] = None
    THEN [trial_quota_data EXCEPT ![s] = Some(EmptyQuotaData(now))]
    ELSE trial_quota_data

\* _load_from_session() without the date test
LoadFromSessionMutant(stored, t) ==
    IF stored = None THEN EmptyQuotaData(t) ELSE stored[1]

\* _load_from_session(): the entry it returns; a missing or stale entry is reset
LoadFromSession(stored, t) ==
    IF stored = None \/ stored[1].date # Date(t)
    THEN EmptyQuotaData(t)
    ELSE stored[1]

\* _load_from_kv() handing out the stored blob although the read failed
LoadFromKVStale(store, t, ok) ==
    IF store[Date(t)] = None THEN EmptyQuotaData(t) ELSE store[Date(t)][1]

\* _load_from_kv(): the blob under today's key, or empty data when the key is
\* absent, the store is unavailable or the read fails (ok = FALSE)
LoadFromKV(store, t, ok) ==
    IF ~ok \/ store[Date(t)] = None
    THEN EmptyQuotaData(t)
    ELSE store[Date(t)][1]

\* _load_quota_data() in session s
LoadQuotaData(s, t, ok) ==
    IF use_session_fallback
    THEN LoadFromSession(SessionDataAfterInit(s)[s], t)
    ELSE LoadFromKV(kv, t, ok)

\* the session state after _load_quota_data(): _load_from_session stores the
\* entry it reset
SessionDataAfterLoad(s, t) ==
    IF use_session_fallback
    THEN [SessionDataAfterInit(s) EXCEPT
            ![s] = Some(LoadFromSession(SessionDataAfterInit(s)[s], t))]
    ELSE trial_quota_data

\* check_quota charging one unit whatever the count
CheckDecisionCostOnce(data, t, mode_key, count) ==
    LET config == QUOTA_CONFIGS[mode_key]
        total_cost == config.cost
        last_gen == data.last_generation
        global_used == data.global_used
        global_remaining == GLOBAL_DAILY_QUOTA - global_used
        mode_used == DictGet(data.mode_usage, mode_key, 0)
        mode_remaining == config.daily_limit - mode_used
    IN  IF t - last_gen < GENERATION_COOLDOWN
        THEN <<FALSE, <<"Please wait", GENERATION_COOLDOWN - (t - last_gen)>>, EmptyDict>>
        ELSE IF total_cost > global_remaining
        THEN <<FALSE, <<"Daily global quota exceeded", global_used, GLOBAL_DAILY_QUOTA>>,
               [global_used |-> global_used, global_limit |-> GLOBAL_DAILY_QUOTA,
                global_remaining |-> global_remaining]>>
        ELSE IF count > mode_remaining
        THEN <<FALSE, <<"daily limit exceeded", config.display_name, mode_used,
                        config.daily_limit>>,
               [mode |-> config.display_name, mode_used |-> mode_used,
                mode_limit |-> config.daily_limit, mode_remaining |-> mode_remaining]>>
        ELSE <<TRUE, <<"OK">>,
               [global_used |-> global_used, global_limit |-> GLOBAL_DAILY_QUOTA,
                global_remaining |-> global_remaining, mode |-> config.display_name,
                mode_used |-> mode_used, mode_limit |-> config.daily_limit,
                mode_remaining |-> mode_remaining, cost |-> total_cost]>>

\* check_quota testing the mode limit before the global limit
CheckDecisionModeFirst(data, t, mode_key, count) ==
    LET config == QUOTA_CONFIGS[mode_key]
        total_cost == config.cost * count
        last_gen == data.last_generation
        global_used == data.global_used
        global_remaining == GLOBAL_DAILY_QUOTA - global_used
        mode_used == DictGet(data.mode_usage, mode_key, 0)
        mode_remaining == config.daily_limit - mode_used
    IN  IF t - last_gen < GENERATION_COOLDOWN
        THEN <<FALSE, <<"Please wait", GENERATION_COOLDOWN - (t - last_gen)>>, EmptyDict>>
        ELSE IF count > mode_remaining
        THEN <<FALSE, <<"daily limit exceeded", config.display_name, mode_used,
                        config.daily_limit>>,
               [mode |-> config.display_name, mode_used |-> mode_used,
                mode_limit |-> config.daily_limit, mode_remaining |-> mode_remaining]>>
        ELSE IF total_cost > global_remaining
        THEN <<FALSE, <<"Daily global quota exceeded", global_used, GLOBAL_DAILY_QUOTA>>,
               [global_used |-> global_used, global_limit |-> GLOBAL_DAILY_QUOTA,
                global_remaining |-> global_remaining]>>
        ELSE <<TRUE, <<"OK">>,
               [global_used |-> global_used, global_limit |-> GLOBAL_DAILY_QUOTA,
                global_remaining |-> global_remaining, mode |-> config.display_name,
                mode_used |-> mode_used, mode_limit |-> config.daily_limit,
                mode_remaining |-> mode_remaining, cost |-> total_cost]>>

\* check_quota after the load: (can_generate, reason, quota_info)
CheckDecision(data, t, mode_key, count) ==
    LET config == QUOTA_CONFIGS[mode_key]
        total_cost == config.cost * count
        last_gen == data.last_generation
        global_used == data.global_used
        global_remaining == GLOBAL_DAILY_QUOTA - global_used
        mode_used == DictGet(data.mode_usage, mode_key, 0)
        mode_remaining == config.daily_limit - mode_used
    IN  IF t - last_gen < GENERATION_COOLDOWN
        THEN <<FALSE, <<"Please wait", GENERATION_COOLDOWN - (t - last_gen)>>, EmptyDict>>
        ELSE IF total_cost > global_remaining
        THEN <<FALSE, <<"Daily global quota exceeded", global_used, GLOBAL_DAILY_QUOTA>>,
               [global_used |-> global_used, global_limit |-> GLOBAL_DAILY_QUOTA,
                global_remaining |-> global_remaining]>>
        ELSE IF count > mode_remaining
        THEN <<FALSE, <<"daily limit exceeded", config.display_name, mode_used,
                        config.daily_limit>>,
               [mode |-> config.display_name, mode_used |-> mode_used,
                mode_limit |-> config.daily_limit, mode_remaining |-> mode_remaining]>>
        ELSE <<TRUE, <<"OK">>,
               [global_used |-> global_used, global_limit |-> GLOBAL_DAILY_QUOTA,
                global_remaining |-> global_remaining, mode |-> config.display_name,
                mode_used |-> mode_used, mode_limit |-> config.daily_limit,
                mode_remaining |-> mode_remaining, cost |-> total_cost]>>

\* consume_quota refusing an update that would pass the global quota
ConsumeUpdateCapped(data, t, mode_key, count) ==
    IF data.global_used + QUOTA_CONFIGS[mode_key].cost * count > GLOBAL_DAILY_QUOTA
    THEN data
    ELSE [data EXCEPT
            !.global_used = data.global_used + QUOTA_CONFIGS[mode_key].cost * count,
            !.mode_usage = [k \in DOMAIN data.mode_usage \cup {mode_key} |->
                               IF k = mode_key
                               THEN DictGet(data.mode_usage, mode_key, 0) + count
                               ELSE data.mode_usage[k]],
            !.last_generation = t]

\* consume_quota charging the cost of one unit whatever the count
ConsumeUpdateUnitCost(data, t, mode_key, count) ==
    LET mu == data.mode_usage IN
    [data EXCEPT
        !.global_used = data.global_used + QUOTA_CONFIGS[mode_key].cost,
        !.mode_usage = [k \in DOMAIN mu \cup {mode_key} |->
                           IF k = mode_key THEN DictGet(mu, mode_key, 0) + count ELSE mu[k]],
        !.last_generation = t]

\* consume_quota leaving last_generation as it was
ConsumeUpdateNoStamp(data, t, mode_key, count) ==
    LET mu == data.mode_usage IN
    [data EXCEPT
        !.global_used = data.global_used + QUOTA_CONFIGS[mode_key].cost * count,
        !.mode_usage = [k \in DOMAIN mu \cup {mode_key} |->
                           IF k = mode_key THEN DictGet(mu, mode_key, 0) + count ELSE mu[k]]]

\* consume_quota between the load and the save: the updated entry
ConsumeUpdate(data, t, mode_key, count) ==
    LET mu == data.mode_usage IN
    [data EXCEPT
        !.global_used = data.global_used + QUOTA_CONFIGS[mode_key].cost * count,
        !.mode_usage = [k \in DOMAIN mu \cup {mode_key} |->
                           IF k = mode_key THEN DictGet(mu, mode_key, 0) + count ELSE mu[k]],
        !.last_generation = t]

\* check_and_show_quota_warning / the check of test_quota_update.py: one
\* check_quota call; an allowed request goes on to generate
CheckQuota(s, mode, resolution, count, ok) ==
    /\ pend[s] = None
    /\ loaded[s] = None
    /\ service' = TRUE
    /\ LET mode_key == get_mode_key(mode, resolution) IN
       IF mode_key \notin DOMAIN QUOTA_CONFIGS
       THEN /\ qret' = [op |-> "check_quota", sess |-> s, args |-> <<mode, resolution, count>>,
                        val |-> <<FALSE, <<"Invalid generation mode">>, EmptyDict>>]
            /\ trial_quota_data' = SessionDataAfterInit(s)
            /\ UNCHANGED pend
       ELSE LET val == CheckDecision(LoadQuotaData(s, now, ok), now, mode_key, count) IN
            /\ qret' = [op |-> "check_quota", sess |-> s,
                        args |-> <<mode, resolution, count>>, val |-> val]
            /\ trial_quota_data' = SessionDataAfterLoad(s, now)
            /\ pend' = IF val[1] THEN [pend EXCEPT ![s] = Some(<<mode, resolution, count>>)]
                       ELSE pend
    /\ UNCHANGED <<now, env, kv, loaded, last_consume>>

\* the generation ended with an error or without an image: nothing is consumed
GenerationFails(s) ==
    /\ pend[s] # None
    /\ loaded[s] = None
    /\ pend' = [pend EXCEPT ![s] = None]
    /\ UNCHANGED <<now, env, kv, trial_quota_data, loaded, service, qret, last_consume>>

\* _save_quota_data(data) at time t: the stores it leaves and what it returns
KVAfterSave(data, t, ok) ==
    IF use_session_fallback \/ ~ok THEN kv ELSE [kv EXCEPT ![Date(t)] = Some(data)]
SaveReturns(ok) == use_session_fallback \/ ok

\* consume_quota(mode, resolution, count) for the request that was checked, as
\* one step: load, update, save
ConsumeQuota(s, okr, okw) ==
    /\ pend[s] # None
    /\ loaded[s] = None
    /\ service' = TRUE
    /\ LET req == pend[s][1]
           mode_key == get_mode_key(req[1], req[2])
           data == ConsumeUpdate(LoadQuotaData(s, now, okr), now, mode_key, req[3])
       IN /\ trial_quota_data' =
                IF use_session_fallback
                THEN [SessionDataAfterLoad(s, now) EXCEPT ![s] = Some(data)]
                ELSE trial_quota_data
          /\ kv' = KVAfterSave(data, now, okw)
          /\ qret' = [op |-> "consume_quota", sess |-> s, args |-> req,
                      val |-> SaveReturns(okw)]
          /\ last_consume' = IF SaveReturns(okw) THEN Some(now) ELSE last_consume
    /\ pend' = [pend EXCEPT ![s] = None]
    /\ UNCHANGED <<now, env, loaded>>

\* consume_quota up to the return of _load_quota_data (the get_object call)
ConsumeLoad(s, ok) ==
    /\ pend[s] # None
    /\ loaded[s] = None
    /\ service' = TRUE
    /\ loaded' = [loaded EXCEPT ![s] = Some(LoadQuotaData(s, now, ok))]
    /\ trial_quota_data' = SessionDataAfterLoad(s, now)
    /\ UNCHANGED <<now, env, kv, pend, qret, last_consume>>

\* consume_quota from there: the update and _save_quota_data (the put_object call)
ConsumeSave(s, ok) ==
    /\ loaded[s] # None
    /\ LET req == pend[s][1]
           mode_key == get_mode_key(req[1], req[2])
           data == ConsumeUpdate(loaded[s][1], now, mode_key, req[3])
       IN /\ trial_quota_data' =
                IF use_session_fallback
                THEN [trial_quota_data EXCEPT ![s] = Some(data)]
                ELSE trial_quota_data
          /\ kv' = KVAfterSave(data, now, ok)
          /\ qret' = [op |-> "consume_quota", sess |-> s, args |-> req,
                      val |-> SaveReturns(ok)]
          /\ last_consume' = IF SaveReturns(ok) THEN Some(now) ELSE last_consume
    /\ pend' = [pend EXCEPT ![s] = None]
    /\ loaded' = [loaded EXCEPT ![s] = None]
    /\ UNCHANGED <<now, env, service>>

\* time passes
QuotaTick ==
    /\ now < MaxTime
    /\ now' = now + 1
    /\ UNCHANGED quotaVars

InitQuota(environments) ==
    /\ env \in environments
    /\ kv = [d \in Dates |-> None]
    /\ trial_quota_data = [s \in Sessions |-> None]
    /\ pend = [s \in Sessions |-> None]
    /\ loaded = [s \in Sessions |-> None]
    /\ service = FALSE
    /\ qret = [op |-> "none", sess |-> "s1", args |-> <<>>, val |-> FALSE]
    /\ last_consume = None

\* the entry session s finds for the current UTC date, if there is one
TodayLedger(s) ==
    IF use_session_fallback
    THEN IF trial_quota_data[s] # None /\ trial_quota_data[s][1].date = Date(now)
         THEN trial_quota_data[s] ELSE None
    ELSE kv[Date(now)]
GlobalUsed(s) == IF TodayLedger(s) = None THEN 0 ELSE TodayLedger(s)[1].global_used
ModeUsed(s, k) ==
    IF TodayLedger(s) = None THEN 0 ELSE DictGet(TodayLedger(s)[1].mode_usage, k, 0)
LastGeneration(s) == IF TodayLedger(s) = None THEN 0 ELSE TodayLedger(s)[1].last_generation

\* consume_quota(mode, resolution, count) called with any arguments, as one
\* step: an unknown mode key returns False before anything is loaded
ConsumeCall(s, mode, resolution, count, okr, okw) ==
    /\ loaded[s] = None
    /\ service' = TRUE
    /\ LET mode_key == get_mode_key(mode, resolution) IN
       IF mode_key \notin DOMAIN QUOTA_CONFIGS
       THEN /\ qret' = [op |-> "consume_quota", sess |-> s,
                        args |-> <<mode, resolution, count>>, val |-> FALSE]
            /\ trial_quota_data' = SessionDataAfterInit(s)
            /\ UNCHANGED <<kv, last_consume>>
       ELSE LET data == ConsumeUpdate(LoadQuotaData(s, now, okr), now, mode_key, count) IN
            /\ trial_quota_data' =
                  IF use_session_fallback
                  THEN [SessionDataAfterLoad(s, now) EXCEPT ![s] = Some(data)]
                  ELSE trial_quota_data
            /\ kv' = KVAfterSave(data, now, okw)
            /\ qret' = [op |-> "consume_quota", sess |-> s,
                        args |-> <<mode, resolution, count>>, val |-> SaveReturns(okw)]
            /\ last_consume' = IF SaveReturns(okw) THEN Some(now) ELSE last_consume
    /\ UNCHANGED <<now, env, pend, loaded>>

\* reset_quota() in session s: an empty entry for today is saved
ResetQuota(s, ok) ==
    /\ loaded[s] = None
    /\ service' = TRUE
    /\ trial_quota_data' =
          IF use_session_fallback
          THEN [trial_quota_data EXCEPT ![s] = Some(EmptyQuotaData(now))]
          ELSE trial_quota_data
    /\ kv' = KVAfterSave(EmptyQuotaData(now), now, ok)
    /\ qret' = [op |-> "reset_quota", sess |-> s, args |-> <<>>, val |-> SaveReturns(ok)]
    /\ UNCHANGED <<now, env, pend, loaded, last_consume>>

\* the "storage" field of get_quota_status
StorageFieldMutant == "Cloudflare KV"
StorageField == IF ~use_session_fallback THEN "Cloudflare KV" ELSE "Session (Fallback)"

\* the dictionary get_quota_status builds from the loaded entry
QuotaStatus(data) ==
    [date |-> data.date,
     global_used |-> data.global_used,
     global_limit |-> GLOBAL_DAILY_QUOTA,
     global_remaining |-> GLOBAL_DAILY_QUOTA - data.global_used,
     modes |-> [k \in ModeKeys |->
                  [name |-> QUOTA_CONFIGS[k].display_name,
                   used |-> DictGet(data.mode_usage, k, 0),
                   limit |-> QUOTA_CONFIGS[k].daily_limit,
                   remaining |-> QUOTA_CONFIGS[k].daily_limit
                                     - DictGet(data.mode_usage, k, 0),
                   cost |-> QUOTA_CONFIGS[k].cost]],
     storage |-> StorageField]

\* get_quota_status() in session s
GetQuotaStatus(s, ok) ==
    /\ loaded[s] = None
    /\ service' = TRUE
    /\ qret' = [op |-> "get_quota_status", sess |-> s, args |-> <<>>,
                val |-> QuotaStatus(LoadQuotaData(s, now, ok))]
    /\ trial_quota_data' = SessionDataAfterLoad(s, now)
    /\ UNCHANGED <<now, env, kv, pend, loaded, last_consume>>

\* ------------------------------------------------------- components/*.py
\* The page handlers of one browser session. A script run is one step, cut at
\* the remote call: the click up to the request, then the response onwards.
UISession == "s1"
Handlers == {"basic", "batch", "search", "chat", "style", "blend", "template"}
UIResolutions == {"1K", "4K"}

\* what the remote calls of one generation gave: how many results carry an
\* image, whether a result carries an error, whether the call raised. A
\* result never carries both an image and an error.
Outcomes(count) ==
    {[images |-> n, error |-> e, raised |-> r] :
        n \in 0..count, e \in BOOLEAN, r \in BOOLEAN} \ 
    {o \in [images : 0..count, error : BOOLEAN, raised : BOOLEAN] :
        \/ o.error /\ o.images = count
        \/ o.raised /\ (o.images # 0 \/ ~o.error)}

\* history: the entry of a generation whose request was just issued
NewGen(h, resolution, count, check) ==
    [id |-> next_uid, handler |-> h, mode |-> h, resolution |-> resolution, count |-> count,
     check |-> check, state |-> "remote", images |-> 0, failed |-> FALSE,
     consumed |-> <<>>]

\* check_quota(mode, resolution, count) in the session: what it returns
CheckQuotaValue(s, mode, resolution, count, ok) ==
    LET mode_key == get_mode_key(mode, resolution) IN
    IF mode_key \notin DOMAIN QUOTA_CONFIGS
    THEN <<FALSE, <<"Invalid generation mode">>, EmptyDict>>
    ELSE CheckDecision(LoadQuotaData(s, now, ok), now, mode_key, count)

\* check_quota(mode, resolution, count) in session s: the call and what it
\* leaves in session state
CheckQuotaCall(s, mode, resolution, count, ok) ==
    /\ service' = TRUE
    /\ qret' = [op |-> "check_quota", sess |-> s,
                args |-> <<mode, resolution, count>>,
                val |-> CheckQuotaValue(s, mode, resolution, count, ok)]
    /\ trial_quota_data' =
          IF get_mode_key(mode, resolution) \in DOMAIN QUOTA_CONFIGS
          THEN SessionDataAfterLoad(s, now)
          ELSE SessionDataAfterInit(s)

\* check_and_show_quota_warning(t, mode, resolution, count): the one
\* check_quota call it makes in trial mode
QuotaWarningCall(mode, resolution, count) ==
    CheckQuotaCall(UISession, mode, resolution, count, TRUE)

\* a Generate click in a handler that tests is_trial_mode() and the quota
\* before start_generation: a denied request returns, an allowed one starts
\* the task and issues the remote call
ClickChecked(h, resolution, count) ==
    /\ ui = [pc |-> "idle", page |-> h]
    /\ can_start_generation(is_generating)[1]
    /\ IF trial
       THEN /\ QuotaWarningCall(h, resolution, count)
            /\ IF CheckQuotaValue(UISession, h, resolution, count, TRUE)[1]
               THEN /\ StartGeneration("a cat", h, resolution)
                    /\ gen' = Some(NewGen(h, resolution, count,
                                           Some(<<h, resolution, count, TRUE>>)))
                    /\ ui' = [ui EXCEPT !.pc = "remote"]
               ELSE UNCHANGED <<genVars, gen, ui>>
       ELSE /\ StartGeneration("a cat", h, resolution)
            /\ gen' = Some(NewGen(h, resolution, count, None))
            /\ ui' = [ui EXCEPT !.pc = "remote"]
            /\ UNCHANGED <<trial_quota_data, service, qret>>
    /\ UNCHANGED <<env, kv, pend, loaded, last_consume, trial, settings, quota_to_consume, rec_gen>>

\* a Generate click (or chat message) in a handler that goes straight to
\* start_generation and the remote call
ClickUnchecked(h, resolution) ==
    /\ ui = [pc |-> "idle", page |-> h]
    /\ can_start_generation(is_generating)[1]
    /\ StartGeneration("a cat", h, resolution)
    /\ gen' = Some(NewGen(h, resolution, 1, None))
    /\ ui' = [ui EXCEPT !.pc = "remote"]
    /\ UNCHANGED <<quotaVars, trial, settings, quota_to_consume, rec_gen>>

\* the handlers with a step between start_generation and the try block that
\* holds the remote call: Image.open of the uploaded files (style, blend),
\* chat_session.start_session (chat)
PrepareHandlers == {"chat", "style", "blend"}

\* a Generate click (or chat message) in such a handler when that step
\* raises: the task is started, the exception ends the script run, no remote
\* call is made
ClickPrepareRaises(h, resolution) ==
    /\ h \in PrepareHandlers
    /\ ui = [pc |-> "idle", page |-> h]
    /\ can_start_generation(is_generating)[1]
    /\ StartGeneration("a cat", h, resolution)
    /\ gen' = Some([NewGen(h, resolution, 1, None) EXCEPT !.state = "aborted"])
    /\ UNCHANGED <<quotaVars, trial, settings, ui, quota_to_consume, rec_gen>>

\* render_basic_generation: the click, st.rerun(), and the next run up to
\* generator.generate
BasicClick(resolution) == ClickChecked("basic", resolution, 1)
\* render_batch_generation: with a record pending the run consumes it and
\* reruns, which is Render("batch")
BatchClick(resolution, count) ==
    /\ quota_to_consume = None
    /\ ClickChecked("batch", resolution, count)
\* render_search_generation: with a record pending the run first consumes
\* it, which is Render("search") followed by this step
SearchClick(resolution) ==
    /\ quota_to_consume = None
    /\ ClickChecked("search", resolution, 1)
ChatSend(resolution) == ClickUnchecked("chat", resolution)
StyleClick(resolution) == ClickUnchecked("style", resolution)
BlendClick(resolution) == ClickUnchecked("blend", resolution)
TemplateClick(resolution) == ClickUnchecked("template", resolution)

\* whether the handler marks the generation for consumption, and with what
\* count: basic and search test "no error and an image", batch counts the
\* results that carry an image
RecordAlways(h, resolution, o) ==
    IF h \in {"basic", "search", "batch"}
    THEN Some([mode |-> h, resolution |-> resolution,
               count |-> IF h = "batch" THEN o.images ELSE 1])
    ELSE None
RecordWritten(h, resolution, o) ==
    IF o.raised THEN None
    ELSE IF h \in {"basic", "search"} /\ ~o.error /\ o.images > 0
    THEN Some([mode |-> h, resolution |-> resolution, count |-> 1])
    ELSE IF h = "batch" /\ o.images > 0
    THEN Some([mode |-> "batch", resolution |-> resolution, count |-> o.images])
    ELSE None

\* the rest of the run once the remote call is over: complete_generation,
\* the _quota_to_consume record, and for basic the st.rerun() that follows
RemoteReturns(o) ==
    /\ ui.pc = "remote"
    /\ LET g == gen[1]
           rec == RecordWritten(g.handler, g.resolution, o)
       IN /\ o \in Outcomes(g.count)
          /\ CompleteGeneration(IF o.images > 0 THEN "image" ELSE NONE,
                                IF o.raised \/ (g.handler = "basic" /\ o.error)
                                THEN Some(MSG_BOOM) ELSE None)
          /\ gen' = Some([g EXCEPT !.state = "done", !.images = o.images,
                                       !.failed = o.error])
          /\ quota_to_consume' = IF rec # None THEN rec ELSE quota_to_consume
          /\ rec_gen' = IF rec # None THEN g.id ELSE rec_gen
          /\ ui' = [ui EXCEPT !.pc = IF g.handler = "basic" /\ ~o.raised
                                     THEN "rerun" ELSE "idle"]
    /\ UNCHANGED <<quotaVars, trial, settings>>

\* consume_quota_after_generation(mode, resolution, count, True)
ConsumeAfterGeneration(mode, resolution, count) ==
    IF trial
    THEN ConsumeCall(UISession, mode, resolution, count, TRUE, TRUE)
    ELSE UNCHANGED <<now, quotaVars>>

\* a script run of page h with no Generate click: the rerun after a basic
\* generation, a navigation, any other widget. The basic, batch and search
\* handlers consume a pending record and delete it
Render(h) ==
    /\ \/ ui.pc = "idle"
       \/ ui.pc = "rerun" /\ h = ui.page
    /\ ui' = [pc |-> "idle", page |-> h]
    /\ IF h \in {"basic", "batch", "search"} /\ quota_to_consume # None
       THEN LET rec == quota_to_consume[1] IN
            /\ ConsumeAfterGeneration(rec.mode, rec.resolution, rec.count)
            /\ quota_to_consume' = None
            /\ rec_gen' = 0
            /\ gen' = IF trial /\ gen[1].id = rec_gen
                      THEN Some([gen[1] EXCEPT !.consumed =
                               Append(@, <<rec.mode, rec.resolution, rec.count>>)])
                      ELSE gen
       ELSE UNCHANGED <<now, quotaVars, quota_to_consume, rec_gen, gen>>
    /\ UNCHANGED <<genVars, trial, settings>>

\* ------------------------------------- components/batch_generation.py
\* generate_batch: the serial loop, and the parallel loop with its executor.
\* An item is "none" (not reached, not submitted), "queued" (submitted, not
\* picked up by a worker), "running" (generator.generate under way),
\* "finished" (the call returned or raised), "collected" (the loop stored
\* its result) or "cancelled" (Future.cancel() succeeded).
MaxBatch == 4
MAX_WORKERS == 3
BatchCounts == 2..MaxBatch
Items == 1..MaxBatch

NoBatch ==
    [pc |-> "idle", parallel |-> FALSE, count |-> 0, i |-> 0,
     items |-> [k \in Items |-> "none"], observed |-> FALSE]

\* check_cancelled(): GenerationStateManager.is_cancelled()
check_cancelled == current_task # None /\ current_task[1].cancelled

\* the Generate click up to the loop: start_generation returned a task, and
\* generate_batch chose the loop; the parallel one submits every item first
GenerateBatch(count, parallel) ==
    /\ batch.pc = "idle"
    /\ can_start_generation(is_generating)[1]
    /\ StartGeneration("a cat", "batch", "1K")
    /\ batch' = IF ~parallel \/ count = 1
                THEN [NoBatch EXCEPT !.pc = "serial", !.count = count, !.i = 1]
                ELSE [NoBatch EXCEPT !.pc = "as_completed", !.parallel = TRUE,
                                     !.count = count,
                                     !.items = [k \in Items |->
                                                  IF k <= count THEN "queued" ELSE "none"]]

\* _generate_batch_serial: the top of an iteration. The loop ends after the
\* last item, or breaks when the flag is set; otherwise the call is made
SerialIteration ==
    /\ batch.pc = "serial"
    /\ batch' = IF batch.i > batch.count THEN [batch EXCEPT !.pc = "return"]
                ELSE IF check_cancelled
                THEN [batch EXCEPT !.pc = "return", !.observed = TRUE]
                ELSE [batch EXCEPT !.pc = "call", !.items[batch.i] = "running"]
    /\ UNCHANGED genVars

\* _generate_batch_serial: generator.generate returned or raised; the result
\* is appended
SerialCallReturns ==
    /\ batch.pc = "call"
    /\ batch' = [batch EXCEPT !.pc = "serial", !.items[batch.i] = "collected",
                              !.i = batch.i + 1]
    /\ UNCHANGED genVars

\* how many calls are under way
Running == Cardinality({k \in Items : batch.items[k] = "running"})

\* a worker thread of the executor takes the oldest queued item and enters
\* generate_single; at most max_workers threads exist
GenerateSingleStarts(k) ==
    /\ batch.parallel
    /\ batch.items[k] = "queued"
    /\ \A j \in Items : j < k => batch.items[j] # "queued"
    /\ Running < MAX_WORKERS
    /\ batch' = [batch EXCEPT !.items[k] = "running"]
    /\ UNCHANGED genVars

\* generate_single returns: the future is done
GenerateSingleReturns(k) ==
    /\ batch.parallel
    /\ batch.items[k] = "running"
    /\ batch' = [batch EXCEPT !.items[k] = "finished"]
    /\ UNCHANGED genVars

\* _generate_batch_parallel: as_completed yields a finished future. With
\* the flag set the loop turns to cancelling; otherwise it stores the result,
\* and ends after the last future
AsCompletedNext(k) ==
    /\ batch.pc = "as_completed"
    /\ batch.items[k] = "finished"
    /\ batch' =
          IF check_cancelled
          THEN [batch EXCEPT !.pc = "cancel", !.i = 1, !.observed = TRUE]
          ELSE LET items == [batch.items EXCEPT ![k] = "collected"] IN
               [batch EXCEPT !.items = items,
                             !.pc = IF \A j \in 1..batch.count : items[j] = "collected"
                                    THEN "exit" ELSE "as_completed"]
    /\ UNCHANGED genVars

\* one turn of "for f in futures: f.cancel()": a future no worker has picked
\* up is cancelled, any other is left alone; after the last one
\* executor.shutdown(wait=False) and break
FutureCancel ==
    /\ batch.pc = "cancel"
    /\ batch' =
          IF batch.i > batch.count THEN [batch EXCEPT !.pc = "exit"]
          ELSE [batch EXCEPT !.i = batch.i + 1,
                             !.items[batch.i] = IF batch.items[batch.i] = "queued"
                                                THEN "cancelled" ELSE batch.items[batch.i]]
    /\ UNCHANGED genVars

\* leaving the with block: ThreadPoolExecutor.__exit__ waits until no item
\* is queued or running
ExecutorExit ==
    /\ batch.pc = "exit"
    /\ \A k \in Items : batch.items[k] \notin {"queued", "running"}
    /\ batch' = [batch EXCEPT !.pc = "return"]
    /\ UNCHANGED genVars

\* generate_batch returned: complete_generation(result=results)
BatchCompletes ==
    /\ batch.pc = "return"
    /\ CompleteGeneration("image", None)
    /\ batch' = [batch EXCEPT !.pc = "idle"]

\* the Cancel button, pressed in another script run of the session
CancelButton ==
    /\ is_generating
    /\ CancelGeneration
    /\ UNCHANGED batch

InitUI(trials, resolutions) ==
    /\ trial \in trials
    /\ settings \in [resolution : resolutions]
    /\ ui = [pc |-> "idle", page |-> "basic"]
    /\ quota_to_consume = None
    /\ gen = None
    /\ rec_gen = 0
    /\ batch = NoBatch

\* init_session_state(): the three keys get their defaults
InitGen ==
    /\ current_task = None
    /\ generation_history = <<>>
    /\ is_generating = FALSE
    /\ next_uid = 1
    /\ gret = [op |-> "init_session_state", val |-> None]
    /\ started = FALSE

Init ==
    /\ now = StartTime
    /\ InitGen
    /\ InitRetry
    /\ InitQuota({EnvCap(TRUE)})
    /\ InitUI({TRUE}, {"1K"})

StartCall ==
    \E p \in Prompts, m \in GenModes, r \in GenResolutions : StartGeneration(p, m, r)
ProgressCall == \E x \in ProgressInputs : UpdateProgress(x)
CompleteCall ==
    \E res \in ResultInputs, err \in ErrorInputs : CompleteGeneration(res, err)

Next ==
    \/ CanStartCall /\ UNCHANGED <<retryVars, quotaVars, uiVars>>
    \/ StartCall /\ UNCHANGED <<retryVars, quotaVars, uiVars>>
    \/ ProgressCall /\ UNCHANGED <<retryVars, quotaVars, uiVars>>
    \/ CompleteCall /\ UNCHANGED <<retryVars, quotaVars, uiVars>>
    \/ CancelGeneration /\ UNCHANGED <<retryVars, quotaVars, uiVars>>
    \/ IsCancelled /\ UNCHANGED <<retryVars, quotaVars, uiVars>>
    \/ Tick /\ UNCHANGED <<retryVars, quotaVars, uiVars>>

Spec == Init /\ [][Next]_vars

NextRetry ==
    \/ GenerateBegin /\ UNCHANGED <<now, genVars, quotaVars, uiVars>>
    \/ ReturnCall /\ UNCHANGED <<now, genVars, quotaVars, uiVars>>
    \/ RaiseCall /\ UNCHANGED <<now, genVars, quotaVars, uiVars>>

SpecRetry == Init /\ [][NextRetry]_vars

\* ---- the generation state machine in a session that already completed
\* HISTORY_LIMIT - 1 or HISTORY_LIMIT generations
\* the k-th most recent of those generations, as complete_generation filed it
PastTask(k) ==
    [task_id |-> 1 - k, prompt |-> "a cat", mode |-> "basic", status |-> COMPLETED,
     created_at |-> 0, started_at |-> 0, completed_at |-> 0,
     progress |-> PROGRESS_FULL, estimated_duration |-> ESTIMATED_TIMES("1K"),
     error |-> None, result |-> "image", cancelled |-> FALSE]

InitHistory ==
    /\ now = StartTime
    /\ current_task = None
    /\ generation_history \in {[k \in 1..n |-> PastTask(k)] :
                                  n \in {HISTORY_LIMIT - 1, HISTORY_LIMIT}}
    /\ is_generating = FALSE
    /\ next_uid = 1
    /\ gret = [op |-> "init_session_state", val |-> None]
    /\ started = FALSE
    /\ InitRetry
    /\ InitQuota({EnvCap(TRUE)})
    /\ InitUI({TRUE}, {"1K"})

SpecHistory == InitHistory /\ [][Next]_vars

\* ---- the ledger used by one session, every service call taking no time
CheckCall(s) ==
    \E m \in QuotaModes, r \in QuotaResolutions, c \in Counts : CheckQuota(s, m, r, c, TRUE)

InitQuotaRun ==
    /\ now = StartTime
    /\ InitGen
    /\ InitRetry
    /\ InitQuota(Environments)
    /\ InitUI({TRUE}, {"1K"})

NextQuota ==
    \/ CheckCall("s1") /\ UNCHANGED <<genVars, retryVars, uiVars>>
    \/ GenerationFails("s1") /\ UNCHANGED <<genVars, retryVars, uiVars>>
    \/ ConsumeQuota("s1", TRUE, TRUE) /\ UNCHANGED <<genVars, retryVars, uiVars>>
    \/ QuotaTick /\ UNCHANGED <<genVars, retryVars, uiVars>>

SpecQuota == InitQuotaRun /\ [][NextQuota]_vars

\* ---- the page handlers of one session, in and out of trial mode
InitUIRun ==
    /\ now = StartTime
    /\ InitGen
    /\ InitRetry
    /\ InitQuota({EnvEndToEnd(TRUE)})
    /\ InitUI(BOOLEAN, UIResolutions)

NextUI ==
    \/ BasicClick(settings.resolution) /\ UNCHANGED <<now, retryVars, batch>>
    \/ \E c \in Counts : BatchClick(settings.resolution, c) /\ UNCHANGED <<now, retryVars, batch>>
    \/ SearchClick(settings.resolution) /\ UNCHANGED <<now, retryVars, batch>>
    \/ ChatSend(settings.resolution) /\ UNCHANGED <<now, retryVars, batch>>
    \/ StyleClick(settings.resolution) /\ UNCHANGED <<now, retryVars, batch>>
    \/ BlendClick(settings.resolution) /\ UNCHANGED <<now, retryVars, batch>>
    \/ TemplateClick(settings.resolution) /\ UNCHANGED <<now, retryVars, batch>>
    \/ \E h \in PrepareHandlers :
          ClickPrepareRaises(h, settings.resolution) /\ UNCHANGED <<now, retryVars, batch>>
    \/ \E o \in Outcomes(MaxCount) : RemoteReturns(o) /\ UNCHANGED <<now, retryVars, batch>>
    \/ \E h \in Handlers : Render(h) /\ UNCHANGED <<retryVars, batch>>

SpecUI == InitUIRun /\ [][NextUI]_vars

\* ---- one session generating batches, serial or parallel, with the Cancel
\* button
NextBatch ==
    \/ \E c \in BatchCounts, p \in BOOLEAN :
          GenerateBatch(c, p) /\ UNCHANGED <<now, retryVars, quotaVars, notBatch>>
    \/ SerialIteration /\ UNCHANGED <<now, retryVars, quotaVars, notBatch>>
    \/ SerialCallReturns /\ UNCHANGED <<now, retryVars, quotaVars, notBatch>>
    \/ \E k \in Items : GenerateSingleStarts(k) /\ UNCHANGED <<now, retryVars, quotaVars, notBatch>>
    \/ \E k \in Items : GenerateSingleReturns(k) /\ UNCHANGED <<now, retryVars, quotaVars, notBatch>>
    \/ \E k \in Items : AsCompletedNext(k) /\ UNCHANGED <<now, retryVars, quotaVars, notBatch>>
    \/ FutureCancel /\ UNCHANGED <<now, retryVars, quotaVars, notBatch>>
    \/ ExecutorExit /\ UNCHANGED <<now, retryVars, quotaVars, notBatch>>
    \/ BatchCompletes /\ UNCHANGED <<now, retryVars, quotaVars, notBatch>>
    \/ CancelButton /\ UNCHANGED <<now, retryVars, quotaVars, notBatch>>

SpecBatch == Init /\ [][NextBatch]_vars

\* ---- classify_error applied to every message
NextClassify ==
    \E msg \in ErrorMessages : ClassifyCall(msg) /\ UNCHANGED <<now, genVars, quotaVars, uiVars>>

SpecClassify == Init /\ [][NextClassify]_vars

\* ---- get_mode_key applied to every pair of arguments
NextModeKey ==
    \E m \in ModeInputs, r \in ResolutionInputs :
        GetModeKeyCall(m, r) /\ UNCHANGED <<genVars, retryVars, uiVars>>

SpecModeKey == Init /\ [][NextModeKey]_vars

\* ---- the service called directly, as debug_quota.py and
\* test_quota_update.py do, from two sessions: any request may be consumed
\* whether or not it was checked. The run starts two seconds before the
\* last clock reading.
LedgerRequests == {<<"basic", "1K", 1>>, <<"style", "1K", MaxCount>>, <<"video", "1K", 1>>}

InitLedger ==
    /\ now = MaxTime - 2
    /\ InitGen
    /\ InitRetry
    /\ InitQuota({EnvEndToEnd(r2) : r2 \in BOOLEAN})
    /\ InitUI({TRUE}, {"1K"})

NextLedger ==
    \/ \E s \in Sessions, q \in LedgerRequests :
          /\ CheckQuotaCall(s, q[1], q[2], q[3], TRUE)
          /\ UNCHANGED <<now, env, kv, pend, loaded, last_consume>>
          /\ UNCHANGED <<genVars, retryVars, uiVars>>
    \/ \E s \in Sessions, q \in LedgerRequests :
          /\ GlobalUsed(s) <= MaxUsed
          /\ ConsumeCall(s, q[1], q[2], q[3], TRUE, TRUE)
          /\ UNCHANGED <<genVars, retryVars, uiVars>>
    \/ \E s \in Sessions : GetQuotaStatus(s, TRUE) /\ UNCHANGED <<genVars, retryVars, uiVars>>
    \/ QuotaTick /\ UNCHANGED <<genVars, retryVars, uiVars>>

SpecLedger == InitLedger /\ [][NextLedger]_vars

\* ---- the service called directly while reads and writes of the store may
\* fail: every call is one step, in one session
FaultRequests == QuotaModes \X QuotaResolutions \X Counts

InitFault ==
    /\ now = MaxTime - 2
    /\ InitGen
    /\ InitRetry
    /\ InitQuota({EnvEndToEnd(TRUE), EnvCap(TRUE)})
    /\ InitUI({TRUE}, {"1K"})

NextFault ==
    \/ \E q \in FaultRequests, ok \in BOOLEAN :
          /\ CheckQuotaCall("s1", q[1], q[2], q[3], ok)
          /\ UNCHANGED <<now, env, kv, pend, loaded, last_consume>>
          /\ UNCHANGED <<genVars, retryVars, uiVars>>
    \/ \E q \in LedgerRequests, okr \in BOOLEAN, okw \in BOOLEAN :
          /\ GlobalUsed("s1") <= MaxUsed
          /\ ConsumeCall("s1", q[1], q[2], q[3], okr, okw)
          /\ UNCHANGED <<genVars, retryVars, uiVars>>
    \/ QuotaTick /\ UNCHANGED <<genVars, retryVars, uiVars>>

SpecFault == InitFault /\ [][NextFault]_vars

\* ---- the ledger used by two sessions at once, with reset_quota, failing
\* reads and writes and day rollover; get_object and put_object are separate
\* steps of consume_quota. One session uses style transfer, the other basic
\* generation.
ResetCheckCall(s) ==
    \E c \in Counts : CheckQuota(s, IF s = "s1" THEN "style" ELSE "basic", "1K", c, TRUE)

InitReset ==
    /\ now = MaxTime - 1
    /\ InitGen
    /\ InitRetry
    /\ InitQuota({EnvEndToEnd(r2) : r2 \in BOOLEAN})
    /\ InitUI({TRUE}, {"1K"})

NextReset ==
    \/ \E s \in Sessions : ResetCheckCall(s) /\ UNCHANGED <<genVars, retryVars, uiVars>>
    \/ \E s \in Sessions : GenerationFails(s) /\ UNCHANGED <<genVars, retryVars, uiVars>>
    \/ \E s \in Sessions, ok \in BOOLEAN :
          ConsumeLoad(s, ok) /\ UNCHANGED <<genVars, retryVars, uiVars>>
    \/ \E s \in Sessions :
          /\ loaded[s] # None
          /\ loaded[s][1].global_used <= MaxUsed
          /\ ConsumeSave(s, TRUE)
          /\ UNCHANGED <<genVars, retryVars, uiVars>>
    \/ \E s \in Sessions, ok \in BOOLEAN : ResetQuota(s, ok) /\ UNCHANGED <<genVars, retryVars, uiVars>>
    \/ QuotaTick /\ UNCHANGED <<genVars, retryVars, uiVars>>

SpecReset == InitReset /\ [][NextReset]_vars

\* ---- the ledger used by two sessions at once; get_object and put_object are
\* separate steps of consume_quota
RaceCheckCall(s) ==
    \E c \in Counts : CheckQuota(s, "style", "1K", c, TRUE)

InitRace ==
    /\ now = StartTime
    /\ InitGen
    /\ InitRetry
    /\ InitQuota({EnvEndToEnd(r2) : r2 \in BOOLEAN})
    /\ InitUI({TRUE}, {"1K"})

NextRace ==
    \/ \E s \in Sessions : RaceCheckCall(s) /\ UNCHANGED <<genVars, retryVars, uiVars>>
    \/ \E s \in Sessions : GenerationFails(s) /\ UNCHANGED <<genVars, retryVars, uiVars>>
    \/ \E s \in Sessions : ConsumeLoad(s, TRUE) /\ UNCHANGED <<genVars, retryVars, uiVars>>
    \/ \E s \in Sessions : ConsumeSave(s, TRUE) /\ UNCHANGED <<genVars, retryVars, uiVars>>
    \/ QuotaTick /\ UNCHANGED <<genVars, retryVars, uiVars>>

SpecRace == InitRace /\ [][NextRace]_vars

\* ---- the same, no UTC midnight falling inside a consume_quota call
NoConsumeInFlight == \A s \in Sessions : loaded[s] = None

NextRaceDay ==
    \/ \E s \in Sessions : RaceCheckCall(s) /\ UNCHANGED <<genVars, retryVars, uiVars>>
    \/ \E s \in Sessions : GenerationFails(s) /\ UNCHANGED <<genVars, retryVars, uiVars>>
    \/ \E s \in Sessions : ConsumeLoad(s, TRUE) /\ UNCHANGED <<genVars, retryVars, uiVars>>
    \/ \E s \in Sessions : ConsumeSave(s, TRUE) /\ UNCHANGED <<genVars, retryVars, uiVars>>
    \/ /\ Date(now + 1) # Date(now) => NoConsumeInFlight
       /\ QuotaTick
       /\ UNCHANGED <<genVars, retryVars, uiVars>>

SpecRaceDay == InitRace /\ [][NextRaceDay]_vars

\* ------------------------------------------------ properties: generation state
Terminal == {COMPLETED, CANCELLED, FAILED}

\* every task the session still holds: the current one and the history
TasksOf(cur, hist) == {cur[i] : i \in DOMAIN cur} \cup {hist[i] : i \in DOMAIN hist}
ActiveTasks == {t \in TasksOf(current_task, generation_history) :
                  t.status \in {PENDING, GENERATING}}

\* C1: single-flight. A start_generation that follows another one with no
\* complete_generation in between returns None and leaves the slot holding the
\* first task; the first one (slot free) returns a task in status Generating that
\* occupies the slot; at most one held task is Pending or Generating.
C1_SingleFlight ==
    /\ [](Cardinality(ActiveTasks) <= 1)
    /\ [][StartCall =>
            IF started
            THEN /\ gret'.val = None
                 /\ current_task # None
                 /\ current_task' = current_task
            ELSE /\ gret'.val # None
                 /\ gret'.val[1].status = GENERATING
                 /\ current_task' = gret'.val]_vars

\* a second start_generation was refused while the first task holds the slot
C1_Witness ==
    /\ gret = [op |-> "start_generation", val |-> None]
    /\ current_task # None
    /\ current_task[1].status = GENERATING

\* C5: the lock is held until complete_generation. With a task in the slot,
\* can_start_generation returns (False, "generation_in_progress") and
\* start_generation returns None whatever update_progress, cancel_generation,
\* is_cancelled calls and clock ticks came before; the slot is emptied by
\* complete_generation only; right after complete_generation,
\* can_start_generation returns (True, "") and start_generation returns a task.
C5_LockHeldUntilComplete ==
    /\ [][CanStartCall /\ current_task # None =>
            gret'.val = <<FALSE, "generation_in_progress">>]_vars
    /\ [][StartCall /\ current_task # None =>
            gret'.val = None /\ current_task' = current_task]_vars
    /\ [][current_task # None /\ ~CompleteCall => current_task' # None]_vars
    /\ [][CompleteCall => current_task' = None]_vars
    /\ [][CanStartCall /\ gret.op = "complete_generation" =>
            gret'.val = <<TRUE, "">>]_vars
    /\ [][StartCall /\ gret.op = "complete_generation" =>
            gret'.val # None /\ current_task' = gret'.val]_vars

\* a cancelled task with progress still holds the slot, later, and the last
\* can_start_generation was refused
C5_Witness ==
    /\ current_task # None
    /\ current_task[1].cancelled
    /\ current_task[1].progress > 0
    /\ now > current_task[1].started_at
    /\ gret = [op |-> "can_start_generation",
               val |-> <<FALSE, "generation_in_progress">>]

\* the (task_id, status) pairs of the tasks the session holds
StatusesOf(cur, hist) == {<<t.task_id, t.status>> : t \in TasksOf(cur, hist)}

C7_FinalStatus ==
    [][\A res \in ResultInputs, err \in ErrorInputs :
         (CompleteGeneration(res, err) /\ current_task # None) =>
            LET t0 == current_task[1]
                t1 == generation_history'[1]
            IN /\ t1.task_id = t0.task_id
               /\ t1.result = res
               /\ (err \notin {None, Some(MSG_EMPTY)}) =>
                      (t1.status = FAILED /\ t1.error = err)
               /\ (err \in {None, Some(MSG_EMPTY)} /\ t0.cancelled) =>
                      (t1.status = CANCELLED /\ t1.error = None)
               /\ (err \in {None, Some(MSG_EMPTY)} /\ ~t0.cancelled) =>
                      (t1.status = COMPLETED /\ t1.error = None)]_vars

\* all three outcomes were filed, the Failed one for a cancelled task
C7_Witness ==
    /\ Len(generation_history) >= 2
    /\ generation_history[1].status = FAILED
    /\ generation_history[1].cancelled
    /\ generation_history[1].result = "image"
    /\ generation_history[1].error = Some(MSG_BOOM)
    /\ generation_history[2].status = CANCELLED

\* C19: the history never holds more than 20 tasks and is ordered newest
\* first; a complete_generation with a current task puts exactly that task at
\* the front, keeps the others in order and, when 20 were held, drops exactly
\* the oldest; a complete_generation with no current task, and every other
\* operation, leaves the history unchanged.
C19_BoundedHistory ==
    /\ [](Len(generation_history) <= 20)
    /\ [](\A i \in 1..(Len(generation_history) - 1) :
            generation_history[i].completed_at >= generation_history[i + 1].completed_at)
    /\ [][IF CompleteCall /\ current_task # None
          THEN /\ generation_history'[1].task_id = current_task[1].task_id
               /\ generation_history'[1].prompt = current_task[1].prompt
               /\ generation_history'[1].created_at = current_task[1].created_at
               /\ Len(generation_history') =
                    IF Len(generation_history) = 20 THEN 20 ELSE Len(generation_history) + 1
               /\ \A i \in 2..Len(generation_history') :
                    generation_history'[i] = generation_history[i - 1]
          ELSE generation_history' = generation_history]_vars

\* two generations completed in a session whose history was full: the list
\* still holds 20 and its two oldest entries are gone
C19_Witness ==
    /\ Len(generation_history) = 20
    /\ generation_history[1].task_id = 2
    /\ generation_history[2].task_id = 1
    /\ generation_history[20].task_id = PastTask(18).task_id
    /\ current_task = None

\* C20: the progress of every held task is within [0, 1]; update_progress(x)
\* sets the current task's progress to min(max(x, 0), 1), changing nothing
\* else, and does nothing when there is no current task; every task filed by
\* complete_generation has progress exactly 1, whatever it was and whatever
\* the final status.
C20_ProgressBounds ==
    /\ [](\A t \in TasksOf(current_task, generation_history) :
            0 <= t.progress /\ t.progress <= PROGRESS_FULL)
    /\ [](\A i \in DOMAIN generation_history :
            generation_history[i].progress = PROGRESS_FULL)
    /\ [][\A x \in ProgressInputs : UpdateProgress(x) =>
            IF current_task = None
            THEN UNCHANGED <<current_task, generation_history, is_generating>>
            ELSE /\ current_task' # None
                 /\ current_task'[1].progress =
                        (IF x < 0 THEN 0 ELSE IF x > PROGRESS_FULL THEN PROGRESS_FULL ELSE x)
                 /\ [current_task'[1] EXCEPT !.progress = 0]
                        = [current_task[1] EXCEPT !.progress = 0]
                 /\ UNCHANGED <<generation_history, is_generating>>]_vars
    /\ [][CompleteCall /\ current_task # None =>
            generation_history'[1].progress = PROGRESS_FULL]_vars

\* update_progress(1.5) left the current task at 1.0, after a generation that
\* failed at progress 0 was filed with progress 1.0
C20_Witness ==
    /\ gret.op = "update_progress"
    /\ current_task # None
    /\ current_task[1].progress = PROGRESS_FULL
    /\ generation_history # <<>>
    /\ generation_history[1].status = FAILED
    /\ generation_history[1].progress = PROGRESS_FULL

\* ------------------------------------------------ properties: quota ledger
\* every ledger entry any store holds
StoredEntries ==
    {kv[d][1] : d \in {x \in Dates : kv[x] # None}}
        \cup {trial_quota_data[s][1] : s \in {x \in Sessions : trial_quota_data[x] # None}}


WithinLimits(e) ==
    /\ e.global_used <= GLOBAL_DAILY_QUOTA
    /\ \A k \in DOMAIN e.mode_usage : e.mode_usage[k] <= QUOTA_CONFIGS[k].daily_limit

\* C2: with one session, every consume_quota following a check_quota that
\* allowed the same request, no stored entry ever shows global_used above the
\* global limit or a mode's units above its daily limit. With global limit 5,
\* basic_1k cost 1 / limit 5 and cooldown 0, check_quota("basic", "1K", 1) is
\* allowed while fewer than 5 points are used (so five cycles succeed), and
\* with 5 used it is denied as global quota exceeded with global_remaining 0.
C2_SequentialCap ==
    /\ [](\A e \in StoredEntries : WithinLimits(e))
    /\ [][(env \in {EnvEndToEnd(TRUE), EnvEndToEnd(FALSE)}
            /\ CheckQuota("s1", "basic", "1K", 1, TRUE))
          => IF GlobalUsed("s1") < 5 /\ ModeUsed("s1", "basic_1k") < 5
             THEN /\ qret'.val[1]
                  /\ pend'["s1"] = Some(<<"basic", "1K", 1>>)
             ELSE IF GlobalUsed("s1") = 5
             THEN /\ ~qret'.val[1]
                  /\ qret'.val[2] = <<"Daily global quota exceeded", 5, 5>>
                  /\ qret'.val[3].global_remaining = 0
                  /\ pend'["s1"] = None
             ELSE TRUE]_vars

\* five basic_1k consumptions are stored and the sixth check has been denied
C2_Witness ==
    /\ env \in {EnvEndToEnd(TRUE), EnvEndToEnd(FALSE)}
    /\ GlobalUsed("s1") = 5
    /\ ModeUsed("s1", "basic_1k") = 5
    /\ qret.op = "check_quota"
    /\ qret.args = <<"basic", "1K", 1>>
    /\ qret.val[1] = FALSE
    /\ qret.val[3].global_remaining = 0

\* the cost of the largest request a session makes
LargestCount == MaxCount
LargestCost(k) == QUOTA_CONFIGS[k].cost * LargestCount

\* C3: with two sessions on the shared ledger, each consuming only what its own
\* check_quota allowed, no entry ever exceeds the global limit by more than the
\* cost of one request, nor a mode's limit by more than the count of one request.
C3_RaceOvershootBound ==
    \A e \in StoredEntries :
        /\ \A k \in DOMAIN e.mode_usage :
            /\ e.mode_usage[k] <= QUOTA_CONFIGS[k].daily_limit + LargestCount
            /\ e.global_used <= GLOBAL_DAILY_QUOTA + LargestCost(k)

\* both sessions passed check_quota on the same ledger and both consumed: the
\* shared entry is above the global limit and above the mode's limit
C3_Witness ==
    /\ kv_available
    /\ kv[Date(now)] # None
    /\ kv[Date(now)][1].global_used > GLOBAL_DAILY_QUOTA
    /\ kv[Date(now)][1].mode_usage["blend"] > QUOTA_CONFIGS["blend"].daily_limit
    /\ \A s \in Sessions : pend[s] = None

\* the test check_quota fails on first, from the stored ledger
FirstFailing(s, mode_key, count) ==
    IF mode_key \notin ModeKeys THEN "Invalid generation mode"
    ELSE IF ~(now - LastGeneration(s) >= GENERATION_COOLDOWN) THEN "Please wait"
    ELSE IF ~(DefaultCost[mode_key] * count <= GLOBAL_DAILY_QUOTA - GlobalUsed(s))
         THEN "Daily global quota exceeded"
    ELSE IF ~(count <= env.limit[mode_key] - ModeUsed(s, mode_key))
         THEN "daily limit exceeded"
    ELSE "OK"

\* C8: check_quota allows exactly when the mode key is known, the cooldown has
\* elapsed, cost * count fits the remaining global points and count fits the
\* mode's remaining units; its reason is that of the first failing test in the
\* order unknown mode, cooldown, global quota, mode quota.
C8_CheckDecision ==
    [][\A m \in QuotaModes, r \in QuotaResolutions, c \in Counts :
        CheckQuota("s1", m, r, c, TRUE) =>
            /\ qret'.val[1] = (FirstFailing("s1", get_mode_key(m, r), c) = "OK")
            /\ qret'.val[2][1] = FirstFailing("s1", get_mode_key(m, r), c)]_vars

\* global limit 10, basic_4k cost 3, 6 points used: count 2 has been denied
C8_Witness ==
    /\ GLOBAL_DAILY_QUOTA = 10
    /\ GlobalUsed("s1") = 6
    /\ qret.op = "check_quota"
    /\ qret.args = <<"basic", "4K", 2>>
    /\ qret.val[1] = FALSE
    /\ qret.val[2][1] = "Daily global quota exceeded"

\* no entry of the current UTC date is stored for session s
Stale(s) == TodayLedger(s) = None

C10_Cooldown_Claimed ==
    [][\A m \in QuotaModes, r \in QuotaResolutions, c \in Counts :
        (last_consume # None /\ get_mode_key(m, r) \in ModeKeys
            /\ CheckQuota("s1", m, r, c, TRUE)) =>
            IF now - last_consume[1] < GENERATION_COOLDOWN
            THEN /\ ~qret'.val[1]
                 /\ qret'.val[2] = <<"Please wait", GENERATION_COOLDOWN - (now - last_consume[1])>>
            ELSE qret'.val[2][1] # "Please wait"]_vars

\* C10: after a consume_quota at time T, a check_quota of a known mode at t
\* with t - T < cooldown, on the same UTC date as T, is denied with the wait
\* reason whatever quota remains; at t - T >= cooldown no check_quota is denied
\* for cooldown.
C10_Cooldown ==
    [][\A m \in QuotaModes, r \in QuotaResolutions, c \in Counts :
        (last_consume # None /\ get_mode_key(m, r) \in ModeKeys
            /\ CheckQuota("s1", m, r, c, TRUE)) =>
            IF now - last_consume[1] < GENERATION_COOLDOWN
            THEN Date(last_consume[1]) = Date(now) =>
                    /\ ~qret'.val[1]
                    /\ qret'.val[2] = <<"Please wait",
                                        GENERATION_COOLDOWN - (now - last_consume[1])>>
            ELSE qret'.val[2][1] # "Please wait"]_vars

\* a check one second after a consumption has been told to wait two more
C10_Witness ==
    /\ last_consume # None
    /\ now - last_consume[1] = 1
    /\ Date(last_consume[1]) = Date(now)
    /\ GlobalUsed("s1") < GLOBAL_DAILY_QUOTA
    /\ qret.op = "check_quota"
    /\ qret.val[2] = <<"Please wait", 2>>

\* ------------------------------------------------ properties: retry wrapper
\* the raised messages that contain a retryable keyword and no safety keyword,
\* and those that contain 'safety' or 'blocked'
RetryableMessages == {MSG_503, MSG_TIMEOUT, MSG_RESET}
SafetyMessages == {MSG_SAFETY, MSG_BLOCKED}

\* C4: retry bound. When every attempt raised a retryable (non-safety) error,
\* generate() returns after exactly MAX_RETRIES + 1 = 4 invocations and the
\* result's error is the last message raised; an attempt that raises a 'safety'
\* or 'blocked' error is the last one, so a call that raises it at once is
\* invoked exactly once.
C4_RetryBound ==
    /\ (/\ rpc = "returned"
        /\ calls = Len(raised)
        /\ \A i \in DOMAIN raised : raised[i] \in RetryableMessages)
       => (/\ calls = MAX_RETRIES + 1
           /\ calls = 4
           /\ result.error = Some(raised[Len(raised)])
           /\ ~result.safety_blocked)
    /\ \A i \in DOMAIN raised :
          raised[i] \in SafetyMessages =>
              (rpc = "returned" /\ calls = i /\ Len(raised) = i)

\* four retryable failures in a row, the result carrying the last message
C4_Witness ==
    /\ rpc = "returned"
    /\ raised = <<MSG_503, MSG_RESET, MSG_503, MSG_TIMEOUT>>
    /\ calls = 4
    /\ result.error = Some(MSG_TIMEOUT)

\* C15: generate, blend_images and generate_with_search never throw: whatever
\* the remote call returns or raises, on any attempt, the call ends by
\* returning a GenerationResult.
C15_NeverThrows == rpc # "thrown"

\* what does hold: a raised error, a SAFETY finish reason, a response without
\* candidates or without content, and a readable response end in a returned
\* result, failures being reported in error and safety_blocked
C15_ListedBehavioursReturn ==
    [][/\ \A msg \in RaisedMessages : ApiRaises(msg) => rpc' \in {"calling", "returned"}
       /\ \A resp \in Responses \ {"unreadable"} : ApiReturns(resp) => rpc' = "returned"
       /\ (rpc' = "returned" /\ rpc = "calling" /\ raised' # raised)
            => result'.error # None]_vars

\* a call that raised three times and then returned a response without content
C15_Witness ==
    /\ rpc = "returned"
    /\ Len(raised) = 3
    /\ calls = 4
    /\ result = EmptyResult

\* the raised messages with neither a retryable nor a safety keyword
FatalMessages == {MSG_INVALID, MSG_EMPTY}
\* the responses _process_response reads without raising and without a SAFETY
\* finish reason
NormalResponses == {"image", "text", "no_candidates", "no_content"}

\* C16: the wrapped call is invoked again only after an attempt that raised a
\* retryable, non-safety error while fewer than MAX_RETRIES retries were used;
\* an attempt that returns a response (a SAFETY finish reason setting
\* safety_blocked and the fixed message), or raises a non-retryable error or
\* one with a safety keyword (even beside a retryable keyword), is the last
\* one. A call that failed retryably k <= 3 times and then got a normal
\* response was invoked k + 1 times and its result has no error.
C16_RetryStopRule ==
    /\ [](rpc = "calling" /\ calls >= 1 =>
            /\ Len(raised) = calls
            /\ raised[calls] \in RetryableMessages
            /\ calls <= MAX_RETRIES)
    /\ [][\A resp \in Responses : ApiReturns(resp) => rpc' # "calling"]_vars
    /\ [][ApiReturns("SAFETY") =>
            result'.safety_blocked /\ result'.error = Some(SAFETY_MESSAGE)]_vars
    /\ [][\A msg \in SafetyMessages \cup FatalMessages :
            ApiRaises(msg) => rpc' = "returned" /\ calls' = Len(raised')]_vars
    /\ [][\A msg \in RetryableMessages :
            ApiRaises(msg) => (rpc' = "calling" <=> calls < MAX_RETRIES)]_vars
    /\ [][\A resp \in NormalResponses : ApiReturns(resp) =>
            /\ Len(raised) <= 3
            /\ \A i \in DOMAIN raised : raised[i] \in RetryableMessages
            /\ calls' = Len(raised) + 1
            /\ result'.error = None
            /\ ~result'.safety_blocked]_vars

\* two retryable failures, then an image: three invocations, no error
C16_Witness ==
    /\ rpc = "returned"
    /\ raised = <<MSG_TIMEOUT, MSG_503>>
    /\ calls = 3
    /\ result.image = "image"
    /\ result.error = None

\* C17: the wrapper sleeps once between consecutive attempts: 2 s before
\* attempt 2, 4 s before attempt 3, 8 s before attempt 4; not before attempt 1,
\* not after the last attempt, not when the error is a safety or a
\* non-retryable one.
C17_BackoffSchedule ==
    /\ [](sleeps = SubSeq(<<2, 4, 8>>, 1, Len(sleeps)))
    /\ [](rpc = "calling" => Len(sleeps) = calls)
    /\ [](rpc \in {"returned", "thrown"} => Len(sleeps) = calls - 1)
    /\ [][\A msg \in SafetyMessages \cup FatalMessages :
            ApiRaises(msg) => sleeps' = sleeps]_vars
    /\ [][\A resp \in Responses : ApiReturns(resp) => sleeps' = sleeps]_vars
    /\ [][\A msg \in RetryableMessages : ApiRaises(msg) =>
            IF calls < 3
            THEN sleeps' = Append(sleeps, <<2, 4, 8>>[calls + 1])
            ELSE sleeps' = sleeps]_vars

\* four attempts were made: the sleeps were 2, 4 and 8 seconds
C17_Witness ==
    /\ rpc = "returned"
    /\ calls = 4
    /\ sleeps = <<2, 4, 8>>

\* ------------------------------------------------------------ page handlers
\* the handlers whose code tests the quota and marks consumption
QuotaHandlers == {"basic", "batch", "search"}

\* the request of generation g, as check_quota would have allowed it
AllowedCheck(g) == Some(<<g.mode, g.resolution, g.count, TRUE>>)

\* C12: in trial mode every remote generation request a handler issues was
\* preceded, in the same user action, by a check_quota for its mode,
\* resolution and count that returned allowed (so none follows a denying
\* check).
C12_CheckedBeforeRemote ==
    (trial /\ gen # None) => gen[1].check = AllowedCheck(gen[1])

\* C12: what the code does keep: the basic, batch and search handlers issue
\* the request only after an allowing check, and a denied click starts
\* nothing.
C12_QuotaHandlersCheck ==
    /\ [](trial /\ gen # None /\ gen[1].handler \in QuotaHandlers
            => gen[1].check = AllowedCheck(gen[1]))
    /\ [][(qret'.op = "check_quota" /\ qret' # qret /\ ~qret'.val[1])
            => UNCHANGED <<genVars, ui, gen>>]_vars

\* C12: a trial session whose chat request is in flight with no check made
C12_Witness ==
    /\ trial
    /\ ui = [pc |-> "remote", page |-> "chat"]
    /\ gen # None
    /\ gen[1].handler = "chat"
    /\ gen[1].check = None
    /\ is_generating

\* the last generation is over and gave nothing to charge: the call raised,
\* the result carries an error, or no result carries an image
EndedWithoutImage(g) ==
    /\ g.state = "done"
    /\ IF g.handler = "batch" THEN g.images = 0 ELSE g.failed \/ g.images = 0

\* C13: a generation that ends safety-blocked, with an error or without an
\* image writes no consumption record and leaves the ledger as it was; the
\* ledger changes only through a consume_quota call carrying the pending
\* record; the record of a generation counts its results that carry an
\* image, at most the count that was checked.
C13_NoConsumptionOnFailure ==
    /\ [][(gen # None /\ gen[1].state = "remote" /\ gen' # None
             /\ EndedWithoutImage(gen'[1]))
            => UNCHANGED <<kv, trial_quota_data, last_consume, quota_to_consume,
                           rec_gen>>]_vars
    /\ [][(TodayLedger(UISession)' # TodayLedger(UISession))
            => /\ quota_to_consume # None
               /\ quota_to_consume' = None
               /\ qret'.op = "consume_quota"
               /\ qret'.args = <<quota_to_consume[1].mode,
                                 quota_to_consume[1].resolution,
                                 quota_to_consume[1].count>>]_vars
    /\ [](gen # None /\ EndedWithoutImage(gen[1])
            => gen[1].consumed = <<>> /\ rec_gen # gen[1].id)
    /\ [](gen # None /\ rec_gen = gen[1].id
            => /\ gen[1].images > 0
               /\ gen[1].images <= gen[1].count
               /\ trial => gen[1].check = AllowedCheck(gen[1])
               /\ quota_to_consume = Some([mode |-> gen[1].mode,
                                           resolution |-> gen[1].resolution,
                                           count |-> gen[1].images]))
    /\ [](gen # None /\ gen[1].consumed # <<>>
            => /\ gen[1].images > 0
               /\ gen[1].images <= gen[1].count
               /\ gen[1].consumed = <<<<gen[1].mode, gen[1].resolution,
                                        gen[1].images>>>>)

\* C13: a trial batch of two was checked, one result carries an image and
\* one an error, and one image was consumed
C13_Witness ==
    /\ trial
    /\ gen # None
    /\ gen[1].handler = "batch"
    /\ gen[1].count = 2
    /\ gen[1].images = 1
    /\ gen[1].failed
    /\ gen[1].consumed = <<<<"batch", gen[1].resolution, 1>>>>
    /\ GlobalUsed(UISession) = QUOTA_CONFIGS[get_mode_key("batch", gen[1].resolution)].cost

\* the last generation completed with an image and no error
Succeeded(g) == g.state = "done" /\ ~g.failed /\ g.images > 0

\* generation g has been charged once, or its record is the one pending
ChargedOrPending(g) ==
    \/ /\ g.consumed = <<<<g.mode, g.resolution, g.images>>>>
       /\ rec_gen # g.id
    \/ /\ g.consumed = <<>>
       /\ rec_gen = g.id
       /\ quota_to_consume = Some([mode |-> g.mode, resolution |-> g.resolution,
                                   count |-> g.images])

ConsumeReturned(s, q, v) ==
    /\ qret'.op = "consume_quota"
    /\ qret'.sess = s
    /\ qret'.args = q
    /\ qret'.val = v
    /\ \/ qret' # qret
       \/ kv' # kv
       \/ trial_quota_data' # trial_quota_data

\* what get_quota_status would return in session s
StatusOf(s) == QuotaStatus(LoadQuotaData(s, now, TRUE))

\* C11: consume_quota for a known mode key does not look at the limits: it
\* adds cost*count to global_used and count to the mode's counter, sets
\* last_generation to now, leaves the other counters and the date as they
\* were, and persists the entry, which is what a following
\* get_quota_status reports; for an unknown mode key it returns False and
\* changes no stored counter (nothing at all once the service object exists:
\* building it creates the empty entry of a fallback session).
C11_ConsumeUnconditional ==
    /\ [][\A s \in Sessions, q \in LedgerRequests : ConsumeReturned(s, q, TRUE) =>
            LET k == get_mode_key(q[1], q[2])
                c == q[3]
            IN /\ k \in DOMAIN QUOTA_CONFIGS
               /\ GlobalUsed(s)' = GlobalUsed(s) + QUOTA_CONFIGS[k].cost * c
               /\ ModeUsed(s, k)' = ModeUsed(s, k) + c
               /\ LastGeneration(s)' = now
               /\ \A k2 \in ModeKeys \ {k} : ModeUsed(s, k2)' = ModeUsed(s, k2)
               /\ TodayLedger(s)' # None
               /\ TodayLedger(s)'[1].date = Date(now)
               /\ StatusOf(s)'.global_used = GlobalUsed(s)'
               /\ StatusOf(s)'.date = Date(now)
               /\ \A k2 \in ModeKeys :
                     StatusOf(s)'.modes[k2].used = ModeUsed(s, k2)']_vars
    /\ [][\A s \in Sessions, q \in LedgerRequests : ConsumeReturned(s, q, FALSE) =>
            /\ get_mode_key(q[1], q[2]) \notin DOMAIN QUOTA_CONFIGS
            /\ kv' = kv
            /\ service => trial_quota_data' = trial_quota_data
            /\ \A b \in Sessions :
                  /\ GlobalUsed(b)' = GlobalUsed(b)
                  /\ LastGeneration(b)' = LastGeneration(b)
                  /\ \A k \in ModeKeys : ModeUsed(b, k)' = ModeUsed(b, k)]_vars
    /\ [](qret.op = "consume_quota" =>
            (qret.val <=> get_mode_key(qret.args[1], qret.args[2])
                              \in DOMAIN QUOTA_CONFIGS))
    /\ [][\A s \in Sessions :
            (qret'.op = "get_quota_status" /\ qret'.sess = s /\ qret' # qret) =>
                /\ qret'.val.global_used = GlobalUsed(s)
                /\ \A k \in ModeKeys : qret'.val.modes[k].used = ModeUsed(s, k)]_vars

\* C11: a consume_quota call returned True and left both the global quota
\* and the mode's daily limit exceeded
C11_Witness ==
    /\ qret.op = "consume_quota"
    /\ qret.val = TRUE
    /\ qret.args[1] = "style"
    /\ GlobalUsed(qret.sess) > GLOBAL_DAILY_QUOTA
    /\ ModeUsed(qret.sess, "blend") > QUOTA_CONFIGS["blend"].daily_limit
    /\ ModeUsed(qret.sess, "basic_1k") > 0
    /\ LastGeneration(qret.sess) = now

\* what check_quota would return in session s, for every request
ChecksOf(s) ==
    [q \in LedgerRequests |-> CheckQuotaValue(s, q[1], q[2], q[3], TRUE)]

\* C18: without the backing-store credentials a consume_quota in one
\* session changes neither what check_quota nor what get_quota_status
\* returns in another session; get_quota_status reports the storage
\* "Session (Fallback)" exactly then, and "Cloudflare KV" otherwise.
C18_FallbackIsolation ==
    /\ [][\A a \in Sessions, q \in LedgerRequests, b \in Sessions :
            (use_session_fallback /\ ConsumeReturned(a, q, TRUE) /\ b # a) =>
                /\ ChecksOf(b)' = ChecksOf(b)
                /\ StatusOf(b)' = StatusOf(b)
                /\ TodayLedger(b)' = TodayLedger(b)]_vars
    /\ [](qret.op = "get_quota_status" =>
            /\ qret.val.storage = "Session (Fallback)" <=> ~env.r2_credentials
            /\ qret.val.storage = "Cloudflare KV" <=> env.r2_credentials)

\* C18: in fallback mode session s1 has consumed, session s2 has a ledger
\* of its own with other counts, and get_quota_status in s2 just reported
\* its own count and the fallback storage
C18_Witness ==
    /\ use_session_fallback
    /\ GlobalUsed("s1") > GLOBAL_DAILY_QUOTA
    /\ GlobalUsed("s2") = 1
    /\ qret.op = "get_quota_status"
    /\ qret.sess = "s2"
    /\ qret.val.global_used = 1
    /\ qret.val.storage = "Session (Fallback)"

\* --------------------------------------------------------- pure functions
\* C23: get_mode_key("basic", r) is "basic_4k" iff r = "4K" and "basic_1k"
\* otherwise; the same for "batch"; "blend" and "style" give "blend" for
\* every r; every other mode gives itself for every r.
C23_ModeKeyMapping ==
    qret.op = "get_mode_key" =>
        LET m == qret.args[1]
            r == qret.args[2]
            k == qret.val
        IN /\ m = "basic" => /\ k = "basic_4k" <=> r = "4K"
                             /\ k = "basic_1k" <=> r # "4K"
           /\ m = "batch" => /\ k = "batch_4k" <=> r = "4K"
                             /\ k = "batch_1k" <=> r # "4K"
           /\ m \in {"blend", "style"} => k = "blend"
           /\ m \notin {"basic", "batch", "blend", "style"} => k = m

\* C23: get_mode_key("style", "4K") returned "blend"
C23_Witness ==
    /\ qret.op = "get_mode_key"
    /\ qret.args = <<"style", "4K">>
    /\ qret.val = "blend"

\* C28: the is_generating flag is true iff the current-task slot holds a
\* task, so can_start_generation returns False exactly when a task occupies
\* the slot.
C28_FlagAndSlotAgree ==
    /\ is_generating <=> current_task # None
    /\ can_start_generation(is_generating)[1] <=> current_task = None
    /\ gret.op = "can_start_generation" => (gret.val[1] <=> current_task = None)

\* C28: can_start_generation just returned False while a cancelled task
\* still occupies the slot
C28_Witness ==
    /\ gret.op = "can_start_generation"
    /\ gret.val[1] = FALSE
    /\ is_generating
    /\ current_task # None
    /\ current_task[1].cancelled
    /\ generation_history # <<>>

\* the retryable keywords classify_error has no branch for
KW_NETWORK == RETRYABLE_ERRORS[5]
KW_502 == RETRYABLE_ERRORS[9]
KW_504 == RETRYABLE_ERRORS[10]

\* C22: classify_error returns one of the eight categories, and a message
\* the retry logic treats as retryable or as a safety block gets a category
\* other than unknown.
C22_ClassifyCoversRetryFamilies ==
    cret.op = "classify_error" =>
        /\ cret.val \in ErrorTypes
        /\ (is_retryable_error(cret.arg) \/ IsSafetyError(cret.arg)) => cret.val # "unknown"

\* C22: what the code does keep: the result is one of the eight categories;
\* a safety message, and a retryable message that holds a retryable keyword
\* other than "network", "502" and "504", is not unknown; a message is
\* unknown exactly when it holds none of the keywords classify_error tests.
C22_ClassifyTotal ==
    cret.op = "classify_error" =>
        LET l == Lower(cret.arg)
            tested == {RETRYABLE_ERRORS[k] : k \in {1, 4, 6, 7, 8}} \cup
                      {KW_QUOTA, KW_RATE, KW_API_KEY, KW_INVALID, KW_SAFETY, KW_BLOCKED,
                       KW_CONNECTION}
        IN /\ cret.val \in ErrorTypes
           /\ IsSafetyError(cret.arg) => cret.val # "unknown"
           /\ cret.val = "unknown" <=> \A w \in tested : ~Contains(w, l)

\* C22: a retryable message, 'network: 504', was classified unknown
C22_Witness ==
    /\ cret.op = "classify_error"
    /\ cret.arg = KW_NETWORK \o <<":", " ">> \o KW_504
    /\ is_retryable_error(cret.arg)
    /\ cret.val = "unknown"

\* the request session s is consuming, its mode key and its cost
ConsumeKey(s) == get_mode_key(pend[s][1][1], pend[s][1][2])
ConsumeCost(s) == QUOTA_CONFIGS[ConsumeKey(s)].cost * pend[s][1][3]

\* C24: no lost updates on the shared store: a consume_quota call that loaded
\* and saves on the same UTC day and returns true leaves the persisted
\* global_used at its value before the save plus the cost of the request, and
\* the mode counter at its value plus the count, whatever the other session
\* saved since the load; so two completed calls add the sum of both.
C24_NoLostUpdate ==
    [][\A s \in Sessions, k \in ModeKeys :
        (/\ kv_available
         /\ loaded[s] # None
         /\ loaded[s][1].date = Date(now)
         /\ k = ConsumeKey(s)
         /\ ConsumeSave(s, TRUE))
        => /\ GlobalUsed(s)' = GlobalUsed(s) + ConsumeCost(s)
           /\ ModeUsed(s, k)' = ModeUsed(s, k) + pend[s][1][3]]_vars

\* C24: what the code does: the save writes the entry the call loaded plus
\* its own request, over whatever the store holds
C24_SaveWritesLoadedPlusOwn ==
    [][\A s \in Sessions :
        (kv_available /\ loaded[s] # None /\ ConsumeSave(s, TRUE))
        => kv'[Date(now)] =
             Some(ConsumeUpdate(loaded[s][1], now, ConsumeKey(s), pend[s][1][3]))]_vars

\* C24: a session is between its load and its save, and the other session's
\* consume_quota has been persisted since that load
C24_Witness ==
    /\ kv_available
    /\ \E s \in Sessions :
          /\ loaded[s] # None
          /\ loaded[s][1].date = Date(now)
          /\ kv[Date(now)] # None
          /\ kv[Date(now)][1].date = Date(now)
          /\ kv[Date(now)][1].global_used > loaded[s][1].global_used

\* C27: every entry of the store lies under the key of the date it carries
C27_DayKeyConsistency ==
    \A d \in Dates : kv[d] # None => kv[d][1].date = d

\* C27: consume_quota returned true and the entry under today's key carries
\* yesterday's date and counters
C27_Witness ==
    /\ kv_available
    /\ qret.op = "consume_quota"
    /\ qret.val = TRUE
    /\ kv[Date(now)] # None
    /\ kv[Date(now)][1].date = Date(now) - 1
    /\ kv[Date(now)][1].global_used > 0

\* C26: a consume_quota call that returns true, in a store that is
\* configured, leaves neither today's persisted global_used nor any mode
\* counter lower than it was before the call, whether its read succeeded or
\* failed.
C26_UsageNeverShrinks ==
    [][\A q \in LedgerRequests, okr \in BOOLEAN, okw \in BOOLEAN, k \in ModeKeys :
        (/\ kv_available
         /\ ConsumeCall("s1", q[1], q[2], q[3], okr, okw)
         /\ qret'.val = TRUE)
        => /\ GlobalUsed("s1")' >= GlobalUsed("s1")
           /\ ModeUsed("s1", k)' >= ModeUsed("s1", k)]_vars

\* C26: what the code does keep: when the read succeeds, a consume_quota
\* call that returns true adds exactly its cost and count; when the read
\* fails it stores its own cost and count alone
C26_GrowsWhenReadSucceeds ==
    [][\A q \in LedgerRequests, okr \in BOOLEAN, okw \in BOOLEAN, k \in ModeKeys :
        (/\ kv_available
         /\ k = get_mode_key(q[1], q[2])
         /\ ConsumeCall("s1", q[1], q[2], q[3], okr, okw)
         /\ qret'.val = TRUE)
        => /\ GlobalUsed("s1")' =
                (IF okr THEN GlobalUsed("s1") ELSE 0) + QUOTA_CONFIGS[k].cost * q[3]
           /\ ModeUsed("s1", k)' = (IF okr THEN ModeUsed("s1", k) ELSE 0) + q[3]]_vars

\* C30: with the store configured, a check_quota call whose read fails
\* returns what the checks give on an empty ledger: a request of a known mode
\* whose own cost and count fit the global and the mode limit is allowed, with
\* zero usage reported, and an unknown mode is refused; a consume_quota call
\* whose save fails returns False and leaves the store as it was.
C30_FailOpen ==
    [][/\ \A q \in FaultRequests :
            (kv_available /\ CheckQuotaCall("s1", q[1], q[2], q[3], FALSE))
            => LET k == get_mode_key(q[1], q[2]) IN
               IF k \notin ModeKeys THEN qret'.val[1] = FALSE
               ELSE /\ qret'.val = CheckDecision(EmptyQuotaData(now), now, k, q[3])
                    /\ (/\ QUOTA_CONFIGS[k].cost * q[3] <= GLOBAL_DAILY_QUOTA
                         /\ q[3] <= QUOTA_CONFIGS[k].daily_limit)
                       => /\ qret'.val[1] = TRUE
                          /\ qret'.val[3].global_used = 0
                          /\ qret'.val[3].mode_used = 0
       /\ \A q \in LedgerRequests, okr \in BOOLEAN :
            (kv_available /\ ConsumeCall("s1", q[1], q[2], q[3], okr, FALSE))
            => /\ qret'.val = FALSE
               /\ kv' = kv]_vars

\* C30: the ledger holds usage that leaves no room for the request, and the
\* check_quota call whose read failed allowed it
C30_Witness ==
    /\ kv_available
    /\ qret.op = "check_quota"
    /\ qret.val[1] = TRUE
    /\ qret.val[3].global_used = 0
    /\ GlobalUsed("s1") + QUOTA_CONFIGS[get_mode_key(qret.args[1], qret.args[2])].cost
            * qret.args[3] > GLOBAL_DAILY_QUOTA

\* cost times units, summed over the mode keys of an entry
RECURSIVE PointsOf(_, _)
PointsOf(mu, keys) ==
    IF keys = {} THEN 0
    ELSE LET k == CHOOSE x \in keys : TRUE
         IN  QUOTA_CONFIGS[k].cost * mu[k] + PointsOf(mu, keys \ {k})

\* C29: in every entry any store holds, global_used is the sum over the mode
\* keys of the key's cost times the units recorded for it.
C29_LedgerConsistency ==
    \A e \in StoredEntries : e.global_used = PointsOf(e.mode_usage, DOMAIN e.mode_usage)

\* C29: after consumptions of both modes, a reset and a day rollover, today's
\* entry again holds units of both modes
C29_Witness ==
    /\ Date(now) > Date(StartTime)
    /\ kv[Date(StartTime)] # None
    /\ kv[Date(now)] # None
    /\ kv[Date(now)][1].date = Date(now)
    /\ DOMAIN kv[Date(now)][1].mode_usage = {"basic_1k", "blend"}
    /\ kv[Date(now)][1].mode_usage["blend"] > 1
    /\ kv[Date(now)][1].global_used > GLOBAL_DAILY_QUOTA

C21_CooperativeCancel ==
    [][/\ \A k \in Items :
            /\ (batch.observed /\ batch'.items[k] = "running") => batch.items[k] = "running"
            /\ batch.items[k] = "running" => batch'.items[k] \in {"running", "finished", "collected"}
       /\ CancelButton => batch'.items = batch.items]_vars

\* C21: what the code does keep: the serial loop starts no call once it saw
\* the flag; in both loops a call under way only ever returns, the batch does
\* not return while a call is under way, and the Cancel button changes no
\* item
C21_SerialAndRunning ==
    /\ [][/\ \A k \in Items :
              /\ (~batch.parallel /\ batch.observed) => batch'.items[k] # "running"
              /\ batch.items[k] = "running"
                   => batch'.items[k] \in {"running", "finished", "collected"}
           /\ CancelButton => batch'.items = batch.items]_vars
    /\ [](batch.pc \in {"return", "idle"} => \A k \in Items : batch.items[k] # "running")

\* C21: the parallel loop has seen the flag and is cancelling futures, and a
\* call that had not started when it saw the flag is under way
C21_Witness ==
    /\ batch.parallel
    /\ batch.observed
    /\ batch.pc = "cancel"
    /\ batch.i <= MAX_WORKERS
    /\ batch.items[MAX_WORKERS + 1] = "running"

====
